---- MODULE Spec2Model ----
(***************************************************************************)
(* Upload-session lifecycle manager and chunk relay of netlify-be.         *)
(*                                                                         *)
(* The model follows the handlers of src/netlify/functions and the helpers *)
(* of src/lib/utils/upload-utils.js.  Sizes are bytes, as in the source.   *)
(* JavaScript values that the code tests with typeof or for truthiness are *)
(* records [t, n, s, b] (type tag, number, string, boolean).  Identifiers  *)
(* and URLs are records [kind, of, n], so that a capability URL, a session *)
(* id and a proxy URL are never confused.                                  *)
(***************************************************************************)
EXTENDS Integers, Sequences, FiniteSets, Bags, TLC

(***************************************************************************)
(* Bounds of the model.                                                    *)
(***************************************************************************)
MaxSessions == 2    \* resumable sessions the backend opens in one run
MaxUploads == 1     \* sessions the backend opens in a lifecycle run
MaxInFlight == 2    \* handler invocations suspended at an await at once
MaxTicks == 2       \* clock ticks (each of the default maxAge)

(***************************************************************************)
(* Program constants.                                                      *)
(***************************************************************************)
MAX_SINGLE_UPLOAD_SIZE == 6 * 1024 * 1024
MAX_TOTAL_FILE_SIZE == 30 * 1024 * 1024
CHUNK_SIZE == 5 * 1024 * 1024
DefaultMaxAge == 3600000
ExpiresIn == 3600
ChunkTimeoutMs == 300000
\* statusCode = null of a GoogleDriveError built without a status; in the
\* comparisons of errorsHandler null behaves as the number 0.
NullStatus == 0

TickMs == DefaultMaxAge

(***************************************************************************)
(* JavaScript values.                                                      *)
(***************************************************************************)
JsUndef == [t |-> "undefined", n |-> 0, s |-> "", b |-> FALSE]
JsNum(x) == [t |-> "number", n |-> x, s |-> "", b |-> FALSE]
JsStr(x) == [t |-> "string", n |-> 0, s |-> x, b |-> FALSE]
JsBool(x) == [t |-> "boolean", n |-> 0, s |-> "", b |-> x]

TypeOf(v) == v.t

Truthy(v) ==
    CASE v.t = "undefined" -> FALSE
      [] v.t = "number" -> v.n # 0
      [] v.t = "string" -> v.s # ""
      [] v.t = "boolean" -> v.b

(***************************************************************************)
(* Identifiers and URLs.                                                   *)
(***************************************************************************)
NullHandle == [kind |-> "null", of |-> "", n |-> 0]
\* The Location header of the backend's k-th resumable session: the
\* capability URL.
GoogleUrl(k) == [kind |-> "google", of |-> "", n |-> k]
\* The j-th identifier produced by generateShortId.
RandId(j) == [kind |-> "rand", of |-> "", n |-> j]
\* The upload_id query parameter of a capability URL.
UploadIdOf(url) == [kind |-> "uploadId", of |-> url.kind, n |-> url.n]
\* The object the backend creates when session k completes, and its links.
FileId(k) == [kind |-> "file", of |-> "", n |-> k]
ViewUrl(id) == [kind |-> "view", of |-> id.kind, n |-> id.n]
DownloadUrl(id) == [kind |-> "download", of |-> id.kind, n |-> id.n]

\* `session_${Date.now()}`, the legacy initiator's identifier for a URL
\* without upload_id.
SessionAt(ms) == [kind |-> "session", of |-> "", n |-> ms]

IsCapabilityUrl(h) == h.kind = "google"

generateNetlifyUploadUrl(sessionId, origin) ==
    [kind |-> "proxy", of |-> sessionId.kind, n |-> sessionId.n]

(***************************************************************************)
(* Errors and responses.                                                   *)
(***************************************************************************)
NoError == [name |-> "none", message |-> "", statusCode |-> NullStatus, field |-> ""]

ValidationError(message, field) ==
    [name |-> "ValidationError", message |-> message,
     statusCode |-> NullStatus, field |-> field]

GoogleDriveError(message, statusCode) ==
    [name |-> "GoogleDriveError", message |-> message,
     statusCode |-> statusCode, field |-> ""]

Error(message) ==
    [name |-> "Error", message |-> message, statusCode |-> NullStatus, field |-> ""]

MessageIncludesNothing(message, word) == FALSE

\* message.includes(word), for the messages the handlers can see.
MessageIncludes(message, word) ==
    CASE word = "token" ->
           message \in {"Failed to refresh OAuth2 access token"}
      [] word = "auth" -> FALSE
      [] OTHER -> FALSE

NoResponse == [statusCode |-> 0, body |-> [none |-> TRUE]]

createErrorResponse(statusCode, message, details) ==
    [statusCode |-> statusCode,
     body |-> IF details = "" THEN [error |-> message]
              ELSE [error |-> message, details |-> details]]

(***************************************************************************)
(* validateUploadRequest: the error it throws, or NoError.                 *)
(***************************************************************************)
validateUploadRequest(requestBody) ==
    LET fileName == requestBody.fileName
        fileSize == requestBody.fileSize
        mimeType == requestBody.mimeType
    IN  IF ~Truthy(fileName) \/ TypeOf(fileName) # "string"
        THEN ValidationError("fileName is required and must be a string", "fileName")
        ELSE IF ~Truthy(fileSize) \/ TypeOf(fileSize) # "number" \/ fileSize.n <= 0
        THEN ValidationError("fileSize is required and must be a positive number",
                             "fileSize")
        ELSE IF fileSize.n > MAX_TOTAL_FILE_SIZE
        THEN ValidationError("File size exceeds maximum limit", "fileSize")
        ELSE IF ~Truthy(mimeType) \/ TypeOf(mimeType) # "string"
        THEN ValidationError("mimeType is required and must be a string", "mimeType")
        ELSE NoError

requiresChunkingOf(fileSize) == fileSize.n > MAX_SINGLE_UPLOAD_SIZE

CeilTruncates(a, b) == a \div b

\* Math.ceil(a / b) for a > 0, b > 0.
Ceil(a, b) == (a + b - 1) \div b

Restrict(f, S) == [x \in (DOMAIN f \cap S) |-> f[x]]

(***************************************************************************)
(* CORS and method handling (lib/cors-handler).                            *)
(***************************************************************************)
Continue == [statusCode |-> 0, body |-> [continue |-> TRUE]]

handlePreflight == [statusCode |-> 200, body |-> [text |-> "OK (CORS preflight)"]]

handleMethodNotAllowed(allowedMethod) ==
    [statusCode |-> 405, body |-> [error |-> "Method Not Allowed", use |-> allowedMethod]]

handleCorsAndMethodNoPreflight(event, allowedMethod) ==
    IF event.httpMethod # allowedMethod THEN handleMethodNotAllowed(allowedMethod)
    ELSE Continue

handleCorsAndMethod(event, allowedMethod) ==
    IF event.httpMethod = "OPTIONS" THEN handlePreflight
    ELSE IF event.httpMethod # allowedMethod THEN handleMethodNotAllowed(allowedMethod)
    ELSE Continue

(***************************************************************************)
(* Shared-secret authentication of the session initiators.                 *)
(***************************************************************************)
SHARED_KEY == "secret"

authenticateRequest(event) == event.authorization = "Bearer " \o SHARED_KEY

(***************************************************************************)
(* Requests to the session initiators, and the backend's answers to the    *)
(* session-open request.                                                   *)
(***************************************************************************)
ValidFileName == JsStr("scan.stl")
ValidMimeType == JsStr("model/stl")

Bodies(FN, FS, MT) == [fileName : FN, fileSize : FS, mimeType : MT]

PostEvent(body) ==
    [httpMethod |-> "POST", authorization |-> "Bearer secret", jsonOk |-> TRUE,
     body |-> body]

DefaultBody ==
    [fileName |-> ValidFileName, fileSize |-> JsNum(1024), mimeType |-> ValidMimeType]

\* location: the answer has a Location header; uploadId: that URL has an
\* upload_id query parameter.
OpenAnswer(statusCode, location) ==
    [kind |-> "response", statusCode |-> statusCode, location |-> location,
     uploadId |-> location]
NetworkError == [kind |-> "neterror", statusCode |-> 0, location |-> FALSE,
                 uploadId |-> FALSE]
NoOpenAnswer == [kind |-> "none", statusCode |-> 0, location |-> FALSE, uploadId |-> FALSE]
\* A Location header whose URL has no upload_id parameter.
OpenAnswerPlainUrl(statusCode) == [OpenAnswer(statusCode, TRUE) EXCEPT !.uploadId = FALSE]

(***************************************************************************)
(* State.                                                                  *)
(***************************************************************************)
VARIABLES
    uploadSessions,  \* the session Map: sessionId -> session object
    sessionMapping,  \* the Map sessionId -> capability URL of extractSessionId
    detached,        \* session objects deleted from the Map that a suspended
                     \* chunk relay still holds a reference to
    drive,           \* the backend: its resumable sessions, by URL number
    tasks,           \* the bag of handler invocations suspended at an await
    now,             \* the clock, in ticks of TickMs
    clientUrls,      \* capability URLs that some response has carried
    last             \* what the most recent step did (request, response)

vars == <<uploadSessions, sessionMapping, detached, drive, tasks, now, clientUrls, last>>

DateNow == now * TickMs

NullChunks == [null |-> TRUE]

\* The session objects reachable from the Map or from a suspended task.
Heap == uploadSessions @@ detached

\* The sessions whose object a suspended chunk relay has captured.
HeldSids(T) == {t.event.session : t \in {u \in BagToSet(T) : u.h = "relayChunk"}}

\* The new Map (the objects of H under the keys K), the objects that only
\* suspended tasks still reach, and the new tasks.
Commit(H, K, T) ==
    /\ uploadSessions' = Restrict(H, K)
    /\ detached' = Restrict(H, HeldSids(T) \ K)
    /\ tasks' = T

FreeSlot == BagCardinality(tasks) < MaxInFlight

Spawn(task) == tasks (+) SetToBag({task})

FinishKeepsTask(task) == tasks

Finish(task) == tasks (-) SetToBag({task})

Resume(task, task2) == (tasks (-) SetToBag({task})) (+) SetToBag({task2})

Init ==
    /\ uploadSessions = << >>
    /\ sessionMapping = << >>
    /\ detached = << >>
    /\ drive = << >>
    /\ tasks = EmptyBag
    /\ now = 0
    /\ clientUrls = {}
    /\ last = [h |-> "init", step |-> "init", resp |-> NoResponse]

(***************************************************************************)
(* Session store helpers of upload-utils.js.                               *)
(***************************************************************************)
\* Removes the sessions that have reached maxAge.
cleanupExpiredSessionsInclusive(maxAge) ==
    {sid \in DOMAIN uploadSessions :
        ~(DateNow - uploadSessions[sid].createdAt >= maxAge)}

\* Removes one expired session per call.
cleanupExpiredSessionsOnePerCall(maxAge) ==
    LET expired == {sid \in DOMAIN uploadSessions :
                       DateNow - uploadSessions[sid].createdAt > maxAge}
    IN  IF expired = {} THEN DOMAIN uploadSessions
        ELSE DOMAIN uploadSessions \ {CHOOSE sid \in expired : TRUE}

\* The keys cleanupExpiredSessions leaves in the Map.
cleanupExpiredSessions(maxAge) ==
    {sid \in DOMAIN uploadSessions :
        ~(DateNow - uploadSessions[sid].createdAt > maxAge)}

generateShortIdConstant == RandId(1)

generateShortId == RandId(Cardinality(DOMAIN sessionMapping) + 1)

\* The object storeUploadSession puts in the Map; mapping is sessionMapping
\* after extractSessionId.
storeUploadSession(sessionId, sessionData, mapping) ==
    [fileName |-> sessionData.fileName,
     fileSize |-> sessionData.fileSize,
     mimeType |-> sessionData.mimeType,
     requiresChunking |-> sessionData.requiresChunking,
     uploadUrl |-> IF sessionId \in DOMAIN mapping THEN mapping[sessionId]
                   ELSE NullHandle,
     createdAt |-> DateNow,
     chunks |-> IF Truthy(sessionData.requiresChunking)
                THEN [chunkSize |-> CHUNK_SIZE,
                      totalChunks |-> Ceil(sessionData.fileSize.n, CHUNK_SIZE),
                      uploadedChunks |-> 0,
                      uploadedBytes |-> 0]
                ELSE NullChunks]

Absent == [absent |-> TRUE]

createUploadResponse(p) ==
    [statusCode |-> 200,
     body |->
       [uploadUrl |-> p.uploadUrl,
        sessionId |-> p.sessionId,
        fileName |-> p.fileName,
        fileSize |-> p.fileSize,
        mimeType |-> p.mimeType,
        requiresChunking |-> p.requiresChunking,
        expiresIn |-> ExpiresIn,
        chunking |-> IF Truthy(p.requiresChunking)
                     THEN [chunkSize |-> CHUNK_SIZE,
                           totalChunks |-> Ceil(p.fileSize.n, CHUNK_SIZE),
                           chunkUploadUrl |-> "/.netlify/functions/upload-chunk"]
                     ELSE Absent,
        instructions |-> IF Truthy(p.requiresChunking) THEN Absent
                         ELSE [method |-> "PUT",
                               contentType |-> p.mimeType,
                               contentLength |-> p.fileSize]]]

\* createGoogleDriveSession: the error it throws for the backend's answer, or
\* NoError when it returns the Location header.
createGoogleDriveSession(answer) ==
    IF answer.kind = "neterror"
    THEN GoogleDriveError("Failed to create Google Drive session", NullStatus)
    ELSE IF answer.statusCode # 200
    THEN GoogleDriveError("Failed to initialize upload", answer.statusCode)
    ELSE IF ~answer.location
    THEN GoogleDriveError("No upload URL received from Google Drive", NullStatus)
    ELSE NoError

DriveErrorStatusClientOnly(statusCode) ==
    IF statusCode >= 400 /\ statusCode < 500 THEN statusCode ELSE 502

\* The HTTP status errorsHandler gives a GoogleDriveError.
DriveErrorStatus(statusCode) ==
    IF statusCode >= 400 /\ statusCode < 600 THEN statusCode ELSE 502

errorsHandler(error) ==
    IF error.name = "ValidationError"
    THEN createErrorResponse(400, error.message, "")
    ELSE IF error.name = "GoogleDriveError"
    THEN createErrorResponse(DriveErrorStatus(error.statusCode), error.message, "")
    ELSE IF MessageIncludes(error.message, "token") \/ MessageIncludes(error.message, "auth")
    THEN createErrorResponse(401, "Authentication failed", error.message)
    ELSE createErrorResponse(500, "Failed to create upload session", error.message)

TokenError == Error("Failed to refresh OAuth2 access token")

(***************************************************************************)
(* Session initiator (upload-proxy.js, the POST handler).                  *)
(***************************************************************************)
ResponseUploadUrlLeaks(requiresChunking, netlifyUploadUrl, googleUploadUrl) ==
    IF Truthy(requiresChunking) THEN NullHandle ELSE googleUploadUrl

\* uploadUrl of the response: null for chunked uploads.
ResponseUploadUrl(requiresChunking, netlifyUploadUrl, googleUploadUrl) ==
    IF Truthy(requiresChunking) THEN NullHandle ELSE netlifyUploadUrl

\* Sweeps before it authenticates.
InitiatorEntrySweepsFirst(event) ==
    LET cors == handleCorsAndMethod(event, "POST")
        err == validateUploadRequest(event.body)
    IN  IF cors # Continue
        THEN [resp |-> cors, err |-> NoError, swept |-> FALSE]
        ELSE IF ~authenticateRequest(event)
        THEN [resp |-> createErrorResponse(401, "Unauthorized", ""), err |-> NoError,
              swept |-> TRUE]
        ELSE IF ~event.jsonOk
        THEN [resp |-> createErrorResponse(400, "Invalid JSON in request body", ""),
              err |-> NoError, swept |-> TRUE]
        ELSE IF err # NoError
        THEN [resp |-> errorsHandler(err), err |-> err, swept |-> TRUE]
        ELSE [resp |-> Continue, err |-> NoError, swept |-> TRUE]

\* Sweeps only when the request goes on to the token.
InitiatorEntrySweepsOnSuccess(event) ==
    LET cors == handleCorsAndMethod(event, "POST")
        err == validateUploadRequest(event.body)
    IN  IF cors # Continue
        THEN [resp |-> cors, err |-> NoError, swept |-> FALSE]
        ELSE IF ~authenticateRequest(event)
        THEN [resp |-> createErrorResponse(401, "Unauthorized", ""), err |-> NoError,
              swept |-> FALSE]
        ELSE IF ~event.jsonOk
        THEN [resp |-> createErrorResponse(400, "Invalid JSON in request body", ""),
              err |-> NoError, swept |-> FALSE]
        ELSE IF err # NoError
        THEN [resp |-> errorsHandler(err), err |-> err, swept |-> FALSE]
        ELSE [resp |-> Continue, err |-> NoError, swept |-> TRUE]

\* The synchronous part of the handler, up to its first await: the response
\* it returns there (Continue when it goes on), the error behind it, and
\* whether cleanupExpiredSessions has run.
InitiatorEntry(event) ==
    LET cors == handleCorsAndMethod(event, "POST")
        err == validateUploadRequest(event.body)
    IN  IF cors # Continue
        THEN [resp |-> cors, err |-> NoError, swept |-> FALSE]
        ELSE IF ~authenticateRequest(event)
        THEN [resp |-> createErrorResponse(401, "Unauthorized", ""), err |-> NoError,
              swept |-> FALSE]
        ELSE IF ~event.jsonOk
        THEN [resp |-> createErrorResponse(400, "Invalid JSON in request body", ""),
              err |-> NoError, swept |-> TRUE]
        ELSE IF err # NoError
        THEN [resp |-> errorsHandler(err), err |-> err, swept |-> TRUE]
        ELSE [resp |-> Continue, err |-> NoError, swept |-> TRUE]

\* requiresChunking as the handler holds it after validateUploadRequest: the
\* current handler destructures it from the result, the earlier one does not.
InitiatorChunking(h, body) ==
    IF h = "createSession" THEN JsBool(requiresChunkingOf(body.fileSize)) ELSE JsUndef

InitiatorEvent(h, step, event) ==
    [h |-> h, step |-> step, event |-> event, answer |-> NoOpenAnswer,
     err |-> NoError, resp |-> NoResponse, sid |-> NullHandle]

\* The part of the handler after the token: the backend's answer to the
\* session-open request, extractSessionId, storeUploadSession and the
\* response.  K is the Map's keys before it, T the suspended tasks after it.
InitiatorOpen(h, event, answer, K, T) ==
    LET err == createGoogleDriveSession(answer)
        ev == [InitiatorEvent(h, "open", event) EXCEPT !.answer = answer, !.err = err]
        requiresChunking == InitiatorChunking(h, event.body)
        googleUploadUrl == GoogleUrl(Len(drive) + 1)
        sessionId == generateShortId
        mapping == sessionMapping @@ (sessionId :> googleUploadUrl)
        netlifyUploadUrl == generateNetlifyUploadUrl(sessionId, "")
        object == storeUploadSession(sessionId,
                     [fileName |-> event.body.fileName, fileSize |-> event.body.fileSize,
                      mimeType |-> event.body.mimeType,
                      requiresChunking |-> requiresChunking], mapping)
    IN  IF err # NoError
        THEN /\ Commit(Heap, K, T)
             /\ UNCHANGED <<sessionMapping, drive>>
             /\ last' = [ev EXCEPT !.resp = errorsHandler(err)]
        ELSE /\ Len(drive) < MaxSessions
             /\ drive' = Append(drive, [size |-> event.body.fileSize.n, received |-> 0,
                                        done |-> FALSE])
             /\ sessionMapping' = mapping
             /\ Commit((sessionId :> object) @@ Heap, K \cup {sessionId}, T)
             /\ last' = [ev EXCEPT !.sid = sessionId, !.resp = createUploadResponse(
                           [uploadUrl |-> ResponseUploadUrl(requiresChunking,
                                             netlifyUploadUrl, googleUploadUrl),
                            sessionId |-> sessionId,
                            fileName |-> event.body.fileName,
                            fileSize |-> event.body.fileSize,
                            mimeType |-> event.body.mimeType,
                            requiresChunking |-> requiresChunking])]

\* The handler in three steps, split at its awaits.
CreateSessionStart(event) ==
    LET entry == InitiatorEntry(event)
        kept == IF entry.swept THEN cleanupExpiredSessions(DefaultMaxAge)
                ELSE DOMAIN uploadSessions
        ev == InitiatorEvent("createSession", "start", event)
    IN  /\ UNCHANGED <<sessionMapping, drive, now, clientUrls>>
        /\ IF entry.resp # Continue
           THEN /\ Commit(Heap, kept, tasks)
                /\ last' = [ev EXCEPT !.err = entry.err, !.resp = entry.resp]
           ELSE /\ FreeSlot
                /\ Commit(Heap, kept,
                          Spawn([h |-> "createSession", pc |-> "token", event |-> event]))
                /\ last' = ev

CreateSessionToken(t, ok) ==
    /\ BagIn(t, tasks)
    /\ t.h = "createSession"
    /\ t.pc = "token"
    /\ UNCHANGED <<sessionMapping, drive, now, clientUrls>>
    /\ LET ev == InitiatorEvent("createSession", "token", t.event)
       IN  IF ok
           THEN /\ Commit(Heap, DOMAIN uploadSessions, Resume(t, [t EXCEPT !.pc = "open"]))
                /\ last' = ev
           ELSE /\ Commit(Heap, DOMAIN uploadSessions, Finish(t))
                /\ last' = [ev EXCEPT !.err = TokenError, !.resp = errorsHandler(TokenError)]

CreateSessionOpen(t, answer) ==
    /\ BagIn(t, tasks)
    /\ t.h = "createSession"
    /\ t.pc = "open"
    /\ UNCHANGED <<now, clientUrls>>
    /\ InitiatorOpen("createSession", t.event, answer, DOMAIN uploadSessions, Finish(t))

\* A run of the handler h ("createSession": the current handler,
\* "createSessionEarlier": the earlier one) that no other step interleaves
\* with.
InitiatorRun(h, event, tokenOk, answer) ==
    LET entry == InitiatorEntry(event)
        kept == IF entry.swept THEN cleanupExpiredSessions(DefaultMaxAge)
                ELSE DOMAIN uploadSessions
        ev == InitiatorEvent(h, "open", event)
    IN  /\ UNCHANGED <<now, clientUrls>>
        /\ IF entry.resp # Continue
           THEN /\ Commit(Heap, kept, tasks)
                /\ UNCHANGED <<sessionMapping, drive>>
                /\ last' = [ev EXCEPT !.step = "start", !.err = entry.err,
                                      !.resp = entry.resp]
           ELSE IF ~tokenOk
           THEN /\ Commit(Heap, kept, tasks)
                /\ UNCHANGED <<sessionMapping, drive>>
                /\ last' = [ev EXCEPT !.step = "token", !.err = TokenError,
                                      !.resp = errorsHandler(TokenError)]
           ELSE InitiatorOpen(h, event, answer, kept, tasks)

CreateSession(event, tokenOk, answer) ==
    InitiatorRun("createSession", event, tokenOk, answer)

\* upload-proxy.js, the earlier POST handler.
CreateSessionEarlier(event, tokenOk, answer) ==
    InitiatorRun("createSessionEarlier", event, tokenOk, answer)

(***************************************************************************)
(* Legacy session initiator (upload.js).                                   *)
(***************************************************************************)
LegacyMissingFields(body) ==
    ~Truthy(body.fileName) \/ ~Truthy(body.fileSize) \/ ~Truthy(body.mimeType)

LegacyFailure(details) ==
    createErrorResponse(500, "Failed to create upload session", details)

CreateSessionLegacy(event, tokenOk, answer) ==
    LET cors == handleCorsAndMethod(event, "POST")
        ev == InitiatorEvent("createSessionLegacy", "open", event)
        uploadUrl == GoogleUrl(Len(drive) + 1)
        sessionId == IF answer.uploadId THEN UploadIdOf(uploadUrl) ELSE SessionAt(DateNow)
        object == [uploadUrl |-> uploadUrl,
                   fileName |-> event.body.fileName,
                   fileSize |-> event.body.fileSize,
                   mimeType |-> event.body.mimeType,
                   requiresChunking |-> JsUndef,
                   createdAt |-> DateNow,
                   chunks |-> NullChunks]
        quiet == /\ Commit(Heap, DOMAIN uploadSessions, tasks)
                 /\ UNCHANGED drive
    IN  /\ UNCHANGED <<sessionMapping, now, clientUrls>>
        /\ IF cors # Continue
           THEN quiet /\ last' = [ev EXCEPT !.step = "start", !.resp = cors]
           ELSE IF ~authenticateRequest(event)
           THEN quiet /\ last' = [ev EXCEPT !.step = "start",
                                     !.resp = [statusCode |-> 401,
                                               body |-> [error |-> "Unauthorized"]]]
           ELSE IF ~event.jsonOk
           THEN quiet /\ last' = [ev EXCEPT !.step = "start",
                                     !.err = Error("Unexpected token in JSON"),
                                     !.resp = LegacyFailure("Unexpected token in JSON")]
           ELSE IF LegacyMissingFields(event.body)
           THEN quiet /\ last' = [ev EXCEPT !.step = "start",
                                     !.resp = [statusCode |-> 400,
                                               body |-> [error |->
                                "Missing required fields: fileName, fileSize, mimeType"]]]
           ELSE IF ~tokenOk
           THEN quiet /\ last' = [ev EXCEPT !.step = "token", !.err = TokenError,
                                     !.resp = LegacyFailure(TokenError.message)]
           ELSE IF answer.kind = "neterror"
           THEN quiet /\ last' = [ev EXCEPT !.answer = answer,
                                     !.err = Error("socket hang up"),
                                     !.resp = LegacyFailure("socket hang up")]
           ELSE IF ~answer.location
           THEN quiet /\ last' = [ev EXCEPT !.answer = answer,
                                     !.err = Error("No upload URL in Location header"),
                                     !.resp = LegacyFailure("No upload URL in Location header")]
           ELSE /\ Len(drive) < MaxSessions
                /\ drive' = Append(drive, [size |-> event.body.fileSize.n, received |-> 0,
                                           done |-> FALSE])
                /\ Commit((sessionId :> object) @@ Heap,
                          DOMAIN uploadSessions \cup {sessionId}, tasks)
                /\ last' = [ev EXCEPT !.answer = answer, !.sid = sessionId,
                              !.resp = [statusCode |-> 200,
                                        body |-> [uploadUrl |->
                                                    generateNetlifyUploadUrl(sessionId, ""),
                                                  sessionId |-> sessionId,
                                                  fileName |-> event.body.fileName,
                                                  fileSize |-> event.body.fileSize,
                                                  mimeType |-> event.body.mimeType,
                                                  expiresIn |-> ExpiresIn,
                                                  instructions |->
                                                    [method |-> "PUT",
                                                     contentType |-> event.body.mimeType,
                                                     contentLength |-> event.body.fileSize]]]]

(***************************************************************************)
(* Direct resumable-URL handler (the POST handler that returns the         *)
(* backend's URL).                                                         *)
(***************************************************************************)
\* error.statusCode || 502
DirectErrorStatus(statusCode) == IF statusCode # NullStatus THEN statusCode ELSE 502

DirectStatus(error) ==
    IF error.name = "ValidationError" THEN 400
    ELSE IF error.name = "GoogleDriveError" THEN DirectErrorStatus(error.statusCode)
    ELSE IF MessageIncludes(error.message, "token") THEN 401
    ELSE 500

DirectUrl(event, tokenOk, answer) ==
    LET cors == handleCorsAndMethod(event, "POST")
        err == validateUploadRequest(event.body)
        openErr == createGoogleDriveSession(answer)
        ev == InitiatorEvent("directUrl", "open", event)
        resumableUrl == GoogleUrl(Len(drive) + 1)
        fail(step, e) == [ev EXCEPT !.step = step, !.err = e,
                             !.resp = createErrorResponse(DirectStatus(e), e.message, "")]
    IN  /\ UNCHANGED <<uploadSessions, sessionMapping, detached, tasks, now>>
        /\ IF cors # Continue
           THEN /\ UNCHANGED <<drive, clientUrls>>
                /\ last' = [ev EXCEPT !.step = "start", !.resp = cors]
           ELSE IF ~authenticateRequest(event)
           THEN /\ UNCHANGED <<drive, clientUrls>>
                /\ last' = [ev EXCEPT !.step = "start",
                              !.resp = createErrorResponse(401, "Unauthorized", "")]
           ELSE IF ~event.jsonOk
           THEN /\ UNCHANGED <<drive, clientUrls>>
                /\ last' = [ev EXCEPT !.step = "start",
                              !.resp = createErrorResponse(400, "Invalid JSON", "")]
           ELSE IF err # NoError
           THEN /\ UNCHANGED <<drive, clientUrls>>
                /\ last' = fail("start", err)
           ELSE IF ~tokenOk
           THEN /\ UNCHANGED <<drive, clientUrls>>
                /\ last' = fail("token", TokenError)
           ELSE IF openErr # NoError
           THEN /\ UNCHANGED <<drive, clientUrls>>
                /\ last' = [fail("open", openErr) EXCEPT !.answer = answer]
           ELSE /\ Len(drive) < MaxSessions
                /\ drive' = Append(drive, [size |-> event.body.fileSize.n, received |-> 0,
                                           done |-> FALSE])
                /\ clientUrls' = clientUrls \cup {resumableUrl}
                /\ last' = [ev EXCEPT !.answer = answer,
                              !.resp = [statusCode |-> 200,
                                        body |-> [uploadUrl |-> resumableUrl,
                                                  fileName |-> event.body.fileName,
                                                  fileSize |-> event.body.fileSize,
                                                  mimeType |-> event.body.mimeType]]]
(***************************************************************************)
(* The storage backend, as the relays see it: the resumable-upload         *)
(* protocol.  A write is [url, ranged, startByte, endByte, total,          *)
(* contentLength]; the backend takes contiguous ranges in order, answers   *)
(* 308 while bytes are missing and 200 or 201 with the object descriptor   *)
(* when the last byte arrives, and rejects anything else.                  *)
(***************************************************************************)
UndefinedHandle == [kind |-> "undefined", of |-> "", n |-> 0]

DriveAccepts(d, w) ==
    /\ IsCapabilityUrl(w.url)
    /\ w.url.n \in 1..Len(d)
    /\ ~d[w.url.n].done
    /\ IF w.ranged
       THEN /\ w.total = d[w.url.n].size
            /\ w.startByte = d[w.url.n].received
            /\ w.startByte <= w.endByte
            /\ w.endByte <= w.total - 1
            /\ w.contentLength = w.endByte - w.startByte + 1
       ELSE /\ d[w.url.n].received = 0
            /\ w.contentLength = d[w.url.n].size

DriveLastByte(d, w) == IF w.ranged THEN w.endByte ELSE d[w.url.n].size - 1

DriveAfter(d, w) ==
    [d EXCEPT ![w.url.n].received = DriveLastByte(d, w) + 1,
              ![w.url.n].done = (DriveLastByte(d, w) + 1 = d[w.url.n].size)]

\* The ways a relayed write can end.  "answer": the backend processes the
\* write and its answer arrives (finalStatus is the success status it uses
\* for the last byte); "unavailable": it answers 503 and stores nothing;
\* "lost": it processes the write but no answer arrives before the socket
\* times out or fails; "dropped": the write never reaches it.
WriteEndings ==
    {[kind |-> "answer", finalStatus |-> 200], [kind |-> "answer", finalStatus |-> 201],
     [kind |-> "unavailable", finalStatus |-> 0],
     [kind |-> "lost", finalStatus |-> 0], [kind |-> "dropped", finalStatus |-> 0]}

\* A peer outside the protocol: it stores nothing and answers with a status
\* that is neither the resume-incomplete status nor a final one, with no
\* JSON body (204 No Content, a 302 redirect).
StatusEndings ==
    {[kind |-> "status", finalStatus |-> 204], [kind |-> "status", finalStatus |-> 302]}

\* The backend takes the connection and never answers; the socket stays
\* open.
SilentEnding == [kind |-> "silent", finalStatus |-> 0]

DriveProcesses(ending) == ending.kind \in {"answer", "lost"}

\* The backend's sessions after the write.
DriveNext(d, w, ending) ==
    IF DriveProcesses(ending) /\ DriveAccepts(d, w) THEN DriveAfter(d, w) ELSE d

\* What the relay's HTTP client sees: a status and a body, or no answer.
NoWrite == [none |-> TRUE]

\* json: the body of the answer parses as JSON (the object descriptor).
NoAnswer == [arrived |-> FALSE, statusCode |-> 0, id |-> UndefinedHandle, json |-> FALSE]

DriveAnswer(d, w, ending) ==
    IF ending.kind = "unavailable"
    THEN [arrived |-> TRUE, statusCode |-> 503, id |-> UndefinedHandle, json |-> FALSE]
    ELSE IF ending.kind = "status"
    THEN [arrived |-> TRUE, statusCode |-> ending.finalStatus, id |-> UndefinedHandle,
          json |-> FALSE]
    ELSE IF ending.kind # "answer" THEN NoAnswer
    ELSE IF ~DriveAccepts(d, w)
    THEN [arrived |-> TRUE,
          statusCode |-> IF IsCapabilityUrl(w.url) /\ w.url.n \in 1..Len(d) THEN 400 ELSE 404,
          id |-> UndefinedHandle, json |-> FALSE]
    ELSE IF DriveAfter(d, w)[w.url.n].done
    THEN [arrived |-> TRUE, statusCode |-> ending.finalStatus, id |-> FileId(w.url.n),
          json |-> TRUE]
    ELSE [arrived |-> TRUE, statusCode |-> 308, id |-> UndefinedHandle, json |-> FALSE]

(***************************************************************************)
(* uploadChunkToGoogleDrive of the chunk relays: the promise's outcome for *)
(* what the HTTP client saw.  hasTimeout: the request has the socket       *)
(* timeout of ChunkTimeoutMs (the header-driven relay sets none).          *)
(***************************************************************************)
ViewUrlOrNull(id) == IF id = UndefinedHandle THEN NullHandle ELSE ViewUrl(id)
DownloadUrlOrNull(id) == IF id = UndefinedHandle THEN NullHandle ELSE DownloadUrl(id)

Resolved(fileId, viewUrl, downloadUrl) ==
    [ok |-> TRUE, error |-> NoError, fileId |-> fileId, viewUrl |-> viewUrl,
     downloadUrl |-> downloadUrl]

RejectedSwallowed(error) ==
    [ok |-> TRUE, error |-> error, fileId |-> UndefinedHandle,
     viewUrl |-> UndefinedHandle, downloadUrl |-> UndefinedHandle]

Rejected(error) ==
    [ok |-> FALSE, error |-> error, fileId |-> UndefinedHandle,
     viewUrl |-> UndefinedHandle, downloadUrl |-> UndefinedHandle]

\* Which 2xx/3xx statuses carry the object descriptor.
IsFinalStatus(statusCode) == statusCode = 200 \/ statusCode = 201

\* The promise around the write request is never settled: no answer, no
\* socket error, and no timeout set on the request.
NeverSettles(ending, hasTimeout) == ending = SilentEnding /\ ~hasTimeout

uploadChunkToGoogleDrive(answer, ending, hasTimeout) ==
    IF ~answer.arrived
    THEN IF ending.kind \in {"lost", "silent"} /\ hasTimeout
         THEN Rejected(Error("Chunk upload timeout"))
         ELSE Rejected(Error("socket hang up"))
    ELSE IF answer.statusCode >= 200 /\ answer.statusCode < 400
    THEN IF IsFinalStatus(answer.statusCode) /\ answer.json
         THEN Resolved(answer.id, ViewUrlOrNull(answer.id), DownloadUrlOrNull(answer.id))
         ELSE Resolved(UndefinedHandle, UndefinedHandle, UndefinedHandle)
    ELSE Rejected(Error("Chunk upload failed"))

(***************************************************************************)
(* Chunk relay, server-tracked (the PUT handler that reads the session     *)
(* store): three steps, split at its awaits.                               *)
(***************************************************************************)
JsonResponse(statusCode, body) == [statusCode |-> statusCode, body |-> body]

ChunkEndNoClamp(chunkIndex, chunkSize, fileSize) ==
    chunkIndex * chunkSize + chunkSize - 1

\* The byte range of a chunk.
ChunkStart(chunkIndex, chunkSize) == chunkIndex * chunkSize
ChunkEnd(chunkIndex, chunkSize, fileSize) ==
    IF ChunkStart(chunkIndex, chunkSize) + chunkSize - 1 < fileSize - 1
    THEN ChunkStart(chunkIndex, chunkSize) + chunkSize - 1
    ELSE fileSize - 1
ChunkLength(chunkIndex, chunkSize, fileSize) ==
    ChunkEnd(chunkIndex, chunkSize, fileSize) - ChunkStart(chunkIndex, chunkSize) + 1

\* The session lookup of the chunk relay: TRUE when the handler goes on.
ChunkSessionFound(sessionId) ==
    /\ sessionId \in DOMAIN uploadSessions
    /\ uploadSessions[sessionId].chunks # NullChunks


RelayEvent(h, step, event) ==
    [h |-> h, step |-> step, event |-> event, write |-> NoWrite, answer |-> NoAnswer,
     err |-> NoError, resp |-> NoResponse]

TokenFailureServerError ==
    [statusCode |-> 500, body |-> [error |-> "Authentication failed - token refresh error"]]

TokenFailure == JsonResponse(401, [error |-> "Authentication failed - token refresh error"])

RelayChunkStart(event) ==
    LET cors == handleCorsAndMethod(event, "PUT")
        sessionId == event.session
        chunkIndex == event.chunk
        ev == RelayEvent("relayChunk", "start", event)
    IN  /\ UNCHANGED <<sessionMapping, drive, now, clientUrls>>
        /\ IF cors # Continue
           THEN /\ Commit(Heap, DOMAIN uploadSessions, tasks)
                /\ last' = [ev EXCEPT !.resp = cors]
           ELSE IF sessionId = NullHandle
           THEN /\ Commit(Heap, DOMAIN uploadSessions, tasks)
                /\ last' = [ev EXCEPT !.resp =
                              JsonResponse(400, [error |-> "Missing session parameter"])]
           ELSE IF ~ChunkSessionFound(sessionId)
           THEN /\ Commit(Heap, DOMAIN uploadSessions, tasks)
                /\ last' = [ev EXCEPT !.resp =
                              JsonResponse(400,
                                [error |-> "Invalid session or not a chunked upload"])]
           ELSE LET s == uploadSessions[sessionId]
                IN  /\ FreeSlot
                    /\ Commit(Heap, DOMAIN uploadSessions,
                              Spawn([h |-> "relayChunk", pc |-> "token", event |-> event,
                                     startByte |-> ChunkStart(chunkIndex, s.chunks.chunkSize),
                                     endByte |-> ChunkEnd(chunkIndex, s.chunks.chunkSize,
                                                          s.fileSize.n),
                                     contentLength |-> ChunkLength(chunkIndex,
                                                          s.chunks.chunkSize, s.fileSize.n)]))
                    /\ last' = ev

RelayChunkToken(t, ok) ==
    /\ BagIn(t, tasks)
    /\ t.h = "relayChunk"
    /\ t.pc = "token"
    /\ UNCHANGED <<sessionMapping, drive, now, clientUrls>>
    /\ LET ev == RelayEvent("relayChunk", "token", t.event)
       IN  IF ok
           THEN /\ Commit(Heap, DOMAIN uploadSessions, Resume(t, [t EXCEPT !.pc = "write"]))
                /\ last' = ev
           ELSE /\ Commit(Heap, DOMAIN uploadSessions, Finish(t))
                /\ last' = [ev EXCEPT !.err = TokenError, !.resp = TokenFailure]

\* The write the server-tracked relay issues for a suspended task.
RelayChunkRequest(t) ==
    [url |-> Heap[t.event.session].uploadUrl, ranged |-> TRUE,
     startByte |-> t.startByte, endByte |-> t.endByte,
     total |-> Heap[t.event.session].fileSize.n, contentLength |-> t.contentLength]

AdvanceChunksCountsDown(chunks, contentLength) ==
    [chunks EXCEPT !.uploadedChunks = @ - 1, !.uploadedBytes = @ + contentLength]

AdvanceChunksBytesOnly(chunks, contentLength) ==
    [chunks EXCEPT !.uploadedBytes = @ + contentLength]

\* The progress counters after an acknowledged chunk.
AdvanceChunks(chunks, contentLength) ==
    [chunks EXCEPT !.uploadedChunks = @ + 1, !.uploadedBytes = @ + contentLength]

IsComplete(chunks) == chunks.uploadedChunks >= chunks.totalChunks

ChunkFailure(error) ==
    JsonResponse(400, [error |-> "Chunk upload failed", details |-> error.message])

RelayChunkWrite(t, ending) ==
    /\ BagIn(t, tasks)
    /\ t.h = "relayChunk"
    /\ t.pc = "write"
    /\ UNCHANGED <<sessionMapping, now, clientUrls>>
    /\ LET sid == t.event.session
           w == RelayChunkRequest(t)
           answer == DriveAnswer(drive, w, ending)
           result == uploadChunkToGoogleDrive(answer, ending, TRUE)
           s == Heap[sid]
           chunks == AdvanceChunks(s.chunks, t.contentLength)
           isComplete == IsComplete(chunks)
           ev == [RelayEvent("relayChunk", "write", t.event) EXCEPT
                    !.write = w, !.answer = answer, !.err = result.error]
       IN  /\ drive' = DriveNext(drive, w, ending)
           /\ IF ~result.ok
              THEN /\ Commit(Heap, DOMAIN uploadSessions, Finish(t))
                   /\ last' = [ev EXCEPT !.resp = ChunkFailure(result.error)]
              ELSE /\ Commit([Heap EXCEPT ![sid].chunks = chunks],
                             IF isComplete THEN DOMAIN uploadSessions \ {sid}
                             ELSE DOMAIN uploadSessions,
                             Finish(t))
                   /\ last' = [ev EXCEPT !.resp =
                                 JsonResponse(200,
                                   [success |-> TRUE,
                                    chunkIndex |-> t.event.chunk,
                                    uploadedChunks |-> chunks.uploadedChunks,
                                    totalChunks |-> chunks.totalChunks,
                                    uploadedBytes |-> chunks.uploadedBytes,
                                    totalBytes |-> s.fileSize.n,
                                    isComplete |-> isComplete,
                                    fileId |-> result.fileId,
                                    fileName |-> s.fileName,
                                    viewUrl |-> result.viewUrl,
                                    downloadUrl |-> result.downloadUrl])]

(***************************************************************************)
(* Chunk relay, header-driven (upload-chunk.js): the session's URL, size   *)
(* and progress come from the request headers.                             *)
(***************************************************************************)
HeaderChunkStart(event) ==
    LET cors == handleCorsAndMethod(event, "PUT")
        ev == RelayEvent("relayChunkHeaders", "start", event)
    IN  /\ UNCHANGED <<uploadSessions, sessionMapping, detached, drive, now, clientUrls>>
        /\ IF cors # Continue
           THEN /\ tasks' = tasks
                /\ last' = [ev EXCEPT !.resp = cors]
           ELSE IF ~event.hasBody
           THEN /\ tasks' = tasks
                /\ last' = [ev EXCEPT !.resp =
                              JsonResponse(400, [error |-> "Request body is missing"])]
           ELSE IF event.session = NullHandle
           THEN /\ tasks' = tasks
                /\ last' = [ev EXCEPT !.resp =
                              JsonResponse(400, [error |-> "Missing session parameter"])]
           ELSE /\ FreeSlot
                /\ tasks' = Spawn([h |-> "relayChunkHeaders", pc |-> "token",
                                   event |-> event,
                                   startByte |-> ChunkStart(event.chunk, event.chunkSize),
                                   endByte |-> ChunkEnd(event.chunk, event.chunkSize,
                                                        event.fileSize),
                                   contentLength |-> ChunkLength(event.chunk,
                                                        event.chunkSize, event.fileSize)])
                /\ last' = ev

HeaderChunkToken(t, ok) ==
    /\ BagIn(t, tasks)
    /\ t.h = "relayChunkHeaders"
    /\ t.pc = "token"
    /\ UNCHANGED <<uploadSessions, sessionMapping, detached, drive, now, clientUrls>>
    /\ LET ev == RelayEvent("relayChunkHeaders", "token", t.event)
       IN  IF ok
           THEN /\ tasks' = Resume(t, [t EXCEPT !.pc = "write"])
                /\ last' = ev
           ELSE /\ tasks' = Finish(t)
                /\ last' = [ev EXCEPT !.err = TokenError, !.resp = TokenFailure]

\* The write the header-driven relay issues.
HeaderChunkRequest(t) ==
    [url |-> t.event.uploadUrl, ranged |-> TRUE,
     startByte |-> t.startByte, endByte |-> t.endByte,
     total |-> t.event.fileSize, contentLength |-> t.contentLength]

HeaderIsComplete(uploadedChunks, totalChunks) == uploadedChunks + 1 >= totalChunks

HeaderChunkWrite(t, ending) ==
    /\ BagIn(t, tasks)
    /\ t.h = "relayChunkHeaders"
    /\ t.pc = "write"
    /\ UNCHANGED <<sessionMapping, now, clientUrls>>
    /\ LET w == HeaderChunkRequest(t)
           answer == DriveAnswer(drive, w, ending)
           result == uploadChunkToGoogleDrive(answer, ending, FALSE)
           isComplete == HeaderIsComplete(t.event.uploadedChunks, t.event.totalChunks)
           withFile == isComplete /\ result.fileId # UndefinedHandle
           ev == [RelayEvent("relayChunkHeaders", "write", t.event) EXCEPT
                    !.write = w, !.answer = answer, !.err = result.error]
           progress == [success |-> TRUE,
                        chunkIndex |-> t.event.chunk,
                        uploadedChunks |-> t.event.uploadedChunks,
                        totalChunks |-> t.event.totalChunks,
                        uploadedBytes |-> t.event.uploadedBytes,
                        totalBytes |-> t.event.fileSize,
                        isComplete |-> isComplete]
       IN  /\ drive' = DriveNext(drive, w, ending)
           /\ IF NeverSettles(ending, FALSE)
              THEN /\ Commit(Heap, DOMAIN uploadSessions,
                             Resume(t, [t EXCEPT !.pc = "waiting"]))
                   /\ last' = [ev EXCEPT !.err = NoError]
              ELSE IF ~result.ok
              THEN /\ Commit(Heap, DOMAIN uploadSessions, Finish(t))
                   /\ last' = [ev EXCEPT !.resp = ChunkFailure(result.error)]
              ELSE /\ Commit(Heap,
                             IF withFile THEN DOMAIN uploadSessions \ {t.event.session}
                             ELSE DOMAIN uploadSessions,
                             Finish(t))
                   /\ last' = [ev EXCEPT !.resp =
                                 JsonResponse(200,
                                   IF withFile
                                   THEN progress @@
                                        [fileId |-> result.fileId,
                                         fileName |-> t.event.fileName,
                                         viewUrl |-> result.viewUrl,
                                         downloadUrl |-> result.downloadUrl]
                                   ELSE progress)]

(***************************************************************************)
(* Single-shot relay (upload-proxy.js, the PUT handler).                   *)
(***************************************************************************)
RelaySingleStart(event) ==
    LET cors == handleCorsAndMethod(event, "PUT")
        sessionId == event.session
        ev == RelayEvent("relaySingle", "start", event)
    IN  /\ UNCHANGED <<uploadSessions, sessionMapping, detached, drive, now, clientUrls>>
        /\ IF cors # Continue
           THEN /\ tasks' = tasks
                /\ last' = [ev EXCEPT !.resp = cors]
           ELSE IF sessionId = NullHandle
           THEN /\ tasks' = tasks
                /\ last' = [ev EXCEPT !.resp =
                              JsonResponse(400, [error |-> "Missing session parameter"])]
           ELSE IF sessionId \notin DOMAIN uploadSessions
           THEN /\ tasks' = tasks
                /\ last' = [ev EXCEPT !.resp =
                              JsonResponse(404, [error |-> "Session not found or expired"])]
           ELSE LET s == uploadSessions[sessionId]
                IN  /\ FreeSlot
                    /\ tasks' = Spawn([h |-> "relaySingle", pc |-> "token", event |-> event,
                                       uploadUrl |-> s.uploadUrl, fileName |-> s.fileName,
                                       fileSize |-> s.fileSize])
                    /\ last' = ev

RelaySingleToken(t, ok) ==
    /\ BagIn(t, tasks)
    /\ t.h = "relaySingle"
    /\ t.pc = "token"
    /\ UNCHANGED <<uploadSessions, sessionMapping, detached, drive, now, clientUrls>>
    /\ LET ev == RelayEvent("relaySingle", "token", t.event)
       IN  IF ok
           THEN /\ tasks' = Resume(t, [t EXCEPT !.pc = "write"])
                /\ last' = ev
           ELSE /\ tasks' = Finish(t)
                /\ last' = [ev EXCEPT !.err = TokenError, !.resp = TokenFailure]

\* The write of the single-shot relay: the whole body, no Content-Range;
\* Content-Length is the request's header or, without one, the stored size.
RelaySingleRequest(t) ==
    [url |-> t.uploadUrl, ranged |-> FALSE, startByte |-> 0, endByte |-> 0,
     total |-> 0,
     contentLength |-> IF t.event.contentLength # 0 THEN t.event.contentLength
                       ELSE t.fileSize.n]

RelaySingleWrite(t, ending) ==
    /\ BagIn(t, tasks)
    /\ t.h = "relaySingle"
    /\ t.pc = "write"
    /\ UNCHANGED <<sessionMapping, now, clientUrls>>
    /\ LET w == RelaySingleRequest(t)
           answer == DriveAnswer(drive, w, ending)
           ok == answer.arrived /\ answer.statusCode >= 200 /\ answer.statusCode < 300
           \* JSON.parse throws before uploadSessions.delete is reached
           parsed == ok /\ answer.json
           id == IF parsed THEN answer.id ELSE UndefinedHandle
           err == IF ~answer.arrived THEN Error("socket hang up")
                  ELSE Error("Upload failed")
           ev == [RelayEvent("relaySingle", "write", t.event) EXCEPT
                    !.write = w, !.answer = answer]
       IN  /\ drive' = DriveNext(drive, w, ending)
           /\ IF NeverSettles(ending, FALSE)
              THEN /\ Commit(Heap, DOMAIN uploadSessions,
                             Resume(t, [t EXCEPT !.pc = "waiting"]))
                   /\ last' = ev
              ELSE IF ~ok
              THEN /\ Commit(Heap, DOMAIN uploadSessions, Finish(t))
                   /\ last' = [ev EXCEPT !.err = err, !.resp =
                                 JsonResponse(500, [error |-> "Upload failed",
                                                    details |-> err.message])]
              ELSE /\ Commit(Heap,
                             IF parsed THEN DOMAIN uploadSessions \ {t.event.session}
                             ELSE DOMAIN uploadSessions,
                             Finish(t))
                   /\ last' = [ev EXCEPT !.resp =
                                 JsonResponse(200,
                                   [success |-> TRUE,
                                    fileId |-> id,
                                    fileName |-> t.fileName,
                                    viewUrl |-> ViewUrlOrNull(id),
                                    downloadUrl |-> DownloadUrlOrNull(id)])]

(***************************************************************************)
(* The clock.                                                              *)
(***************************************************************************)
Tick ==
    /\ now < MaxTicks
    /\ now' = now + 1
    /\ last' = [h |-> "clock", step |-> "tick", resp |-> NoResponse]
    /\ UNCHANGED <<uploadSessions, sessionMapping, detached, drive, tasks, clientUrls>>

(***************************************************************************)
(* Requests of the lifecycle specification: the current initiator, the     *)
(* server-tracked chunk relay, the single-shot relay and the clock.        *)
(***************************************************************************)
\* A single-shot file at the threshold, a file of three chunks, an invalid
\* size.
LifecycleSizes == {MAX_SINGLE_UPLOAD_SIZE, 11000000, -1}

LifecycleEvents ==
    {PostEvent([DefaultBody EXCEPT !.fileSize = JsNum(x)]) : x \in LifecycleSizes}
    \cup {[PostEvent(DefaultBody) EXCEPT !.authorization = "Bearer wrong"],
          [PostEvent(DefaultBody) EXCEPT !.httpMethod = "OPTIONS"]}

\* The backend opens at most MaxUploads sessions in a lifecycle run; past
\* that it only answers 503.
LifecycleOpenAnswers ==
    IF Len(drive) < MaxUploads THEN {OpenAnswer(200, TRUE), OpenAnswer(503, FALSE)}
    ELSE {OpenAnswer(503, FALSE)}

\* An identifier no session was ever stored under.
UnknownId == RandId(0)

\* The session parameters a caller can send: those of the stored sessions,
\* those of sessions that are gone, an unknown one, none.
SessionParams == DOMAIN sessionMapping \cup {UnknownId, NullHandle}

ChunkEvent(sessionId, chunkIndex) ==
    [httpMethod |-> "PUT", session |-> sessionId, chunk |-> chunkIndex]

\* Chunk indexes 0..3: the three chunks of the chunked file and one beyond.
LifecycleChunkEvents ==
    {ChunkEvent(sid, c) : sid \in DOMAIN sessionMapping, c \in 0..3}
    \cup {ChunkEvent(UnknownId, 0), ChunkEvent(NullHandle, 0),
          [ChunkEvent(NullHandle, 0) EXCEPT !.httpMethod = "OPTIONS"]}

SingleEvent(sessionId) ==
    [httpMethod |-> "PUT", session |-> sessionId, contentLength |-> 0]

LifecycleSingleEvents ==
    {SingleEvent(sid) : sid \in SessionParams}
    \cup {[SingleEvent(NullHandle) EXCEPT !.httpMethod = "POST"],
          [SingleEvent(NullHandle) EXCEPT !.httpMethod = "OPTIONS"]}

Next ==
    \/ \E event \in LifecycleEvents, tokenOk \in BOOLEAN, answer \in LifecycleOpenAnswers :
         CreateSession(event, tokenOk, answer)
    \/ \E event \in LifecycleChunkEvents : RelayChunkStart(event)
    \/ \E t \in BagToSet(tasks), ok \in BOOLEAN : RelayChunkToken(t, ok)
    \/ \E t \in BagToSet(tasks), ending \in WriteEndings : RelayChunkWrite(t, ending)
    \/ \E event \in LifecycleSingleEvents : RelaySingleStart(event)
    \/ \E t \in BagToSet(tasks), ok \in BOOLEAN : RelaySingleToken(t, ok)
    \/ \E t \in BagToSet(tasks), ending \in WriteEndings : RelaySingleWrite(t, ending)
    \/ Tick

Spec == Init /\ [][Next]_vars

(***************************************************************************)
(* The session initiators on their own: the current handler step by step,  *)
(* the earlier handler, the clock.                                         *)
(***************************************************************************)
\* Sizes around the single-shot threshold and the maximum.
InitiateSizes ==
    {MAX_SINGLE_UPLOAD_SIZE, MAX_SINGLE_UPLOAD_SIZE + 1, MAX_TOTAL_FILE_SIZE + 1}

InitiateEvents ==
    {PostEvent([DefaultBody EXCEPT !.fileSize = JsNum(x)]) : x \in InitiateSizes}
    \cup {[PostEvent(DefaultBody) EXCEPT !.authorization = "Bearer wrong"],
          [PostEvent(DefaultBody) EXCEPT !.authorization = "secret"],
          [PostEvent(DefaultBody) EXCEPT !.jsonOk = FALSE]}

\* What the backend can answer to the session-open request: the session's
\* URL, success without one, a redirect, a client error, server errors, no
\* answer.
InitiateOpenAnswers ==
    {OpenAnswer(200, TRUE), OpenAnswer(200, FALSE), OpenAnswer(302, FALSE),
     OpenAnswer(404, FALSE), OpenAnswer(500, FALSE), OpenAnswer(503, FALSE),
     NetworkError}

NextInitiate ==
    \/ \E event \in InitiateEvents : CreateSessionStart(event)
    \/ \E t \in BagToSet(tasks), ok \in BOOLEAN : CreateSessionToken(t, ok)
    \/ \E t \in BagToSet(tasks), answer \in InitiateOpenAnswers : CreateSessionOpen(t, answer)
    \/ \E event \in InitiateEvents, tokenOk \in BOOLEAN,
          answer \in {OpenAnswer(200, TRUE), OpenAnswer(503, FALSE)} :
         CreateSessionEarlier(event, tokenOk, answer)
    \/ Tick

SpecInitiate == Init /\ [][NextInitiate]_vars

(***************************************************************************)
(* Request validation: the current and the legacy initiator on bodies of   *)
(* every shape.                                                            *)
(***************************************************************************)
ValidateNames == {ValidFileName, JsStr(""), JsUndef, JsNum(5)}
ValidateSizes ==
    {JsNum(MAX_SINGLE_UPLOAD_SIZE), JsNum(MAX_TOTAL_FILE_SIZE),
     JsNum(MAX_TOTAL_FILE_SIZE + 1), JsNum(0), JsNum(-1), JsStr("1024"), JsUndef}
ValidateTypes == {ValidMimeType, JsStr(""), JsUndef, JsBool(TRUE)}

\* The bodies sent to the legacy handler.
LegacyEvents ==
    {PostEvent(b) : b \in Bodies({ValidFileName, JsNum(5), JsUndef},
                                 {JsNum(MAX_SINGLE_UPLOAD_SIZE), JsNum(-1), JsNum(0)},
                                 {ValidMimeType, JsBool(TRUE)})}
    \cup {[PostEvent(DefaultBody) EXCEPT !.authorization = "secret"],
          [PostEvent(DefaultBody) EXCEPT !.jsonOk = FALSE]}

\* The backend opens at most MaxUploads sessions in a validation run.
ValidateOpenAnswers ==
    IF Len(drive) < MaxUploads THEN {OpenAnswer(200, TRUE)} ELSE {OpenAnswer(503, FALSE)}

ValidateEvents ==
    {PostEvent(b) : b \in Bodies(ValidateNames, ValidateSizes, ValidateTypes)}
    \cup {[PostEvent(DefaultBody) EXCEPT !.httpMethod = "OPTIONS"],
          [PostEvent(DefaultBody) EXCEPT !.httpMethod = "PUT"],
          [PostEvent(DefaultBody) EXCEPT !.authorization = "secret"],
          [PostEvent(DefaultBody) EXCEPT !.jsonOk = FALSE]}

NextValidate ==
    \/ \E event \in ValidateEvents, answer \in ValidateOpenAnswers :
         CreateSession(event, TRUE, answer)
    \/ \E event \in LegacyEvents, tokenOk \in BOOLEAN, answer \in ValidateOpenAnswers :
         CreateSessionLegacy(event, tokenOk, answer)

SpecValidate == Init /\ [][NextValidate]_vars

(***************************************************************************)
(* The header-driven upload path: the direct resumable-URL handler and the *)
(* header-driven chunk relay, beside the current initiator.                *)
(***************************************************************************)
HeaderSizes == {11000000, -1}

HeaderInitiatorEvents ==
    {PostEvent([DefaultBody EXCEPT !.fileSize = JsNum(x)]) : x \in HeaderSizes}

\* Each of the two initiators gets at most MaxUploads sessions opened.
HeaderOpenAnswers(opened) ==
    IF opened < MaxUploads THEN {OpenAnswer(200, TRUE), OpenAnswer(302, FALSE)}
    ELSE {OpenAnswer(302, FALSE)}

\* A chunk request of a client that holds the capability URL url of a file
\* of fileSize bytes and says it has uploaded uploadedChunks chunks.
HeaderEvent(sessionId, chunkIndex, url, fileSize, uploadedChunks) ==
    [httpMethod |-> "PUT", hasBody |-> TRUE, session |-> sessionId, chunk |-> chunkIndex,
     uploadUrl |-> url, fileName |-> ValidFileName.s, fileSize |-> fileSize,
     chunkSize |-> CHUNK_SIZE, totalChunks |-> Ceil(fileSize, CHUNK_SIZE),
     uploadedChunks |-> uploadedChunks, uploadedBytes |-> uploadedChunks * CHUNK_SIZE]

\* The client sends the chunks of the files whose URL it was given, under a
\* stored or an unknown session id, with its true progress (chunk c after c
\* chunks) or, for chunk 0, with the progress of the last chunk.
HeaderProgress == {<<c, c>> : c \in 0..2} \cup {<<0, 2>>}

HeaderEvents ==
    {HeaderEvent(sid, p[1], url, drive[url.n].size, p[2]) :
        sid \in DOMAIN uploadSessions \cup {UnknownId},
        p \in HeaderProgress, url \in clientUrls}
    \cup {[HeaderEvent(NullHandle, 0, GoogleUrl(1), 1024, 0) EXCEPT !.httpMethod = "OPTIONS"],
          [HeaderEvent(UnknownId, 0, GoogleUrl(1), 1024, 0) EXCEPT !.hasBody = FALSE],
          HeaderEvent(NullHandle, 0, GoogleUrl(1), 1024, 0)}

NextHeader ==
    \/ \E event \in HeaderInitiatorEvents,
          answer \in HeaderOpenAnswers(Cardinality(DOMAIN sessionMapping)) :
         CreateSession(event, TRUE, answer)
    \/ \E event \in HeaderInitiatorEvents, tokenOk \in BOOLEAN,
          answer \in HeaderOpenAnswers(Cardinality(clientUrls)) :
         DirectUrl(event, tokenOk, answer)
    \/ \E event \in HeaderEvents : HeaderChunkStart(event)
    \/ \E t \in BagToSet(tasks), ok \in BOOLEAN : HeaderChunkToken(t, ok)
    \/ \E t \in BagToSet(tasks), ending \in WriteEndings : HeaderChunkWrite(t, ending)

SpecHeader == Init /\ [][NextHeader]_vars


(***************************************************************************)
(* The relays against a peer that also answers outside the protocol: the   *)
(* current initiator, the server-tracked chunk relay and the single-shot   *)
(* relay.                                                                  *)
(***************************************************************************)
StatusSizes == {MAX_SINGLE_UPLOAD_SIZE, 11000000}

StatusInitiatorEvents ==
    {PostEvent([DefaultBody EXCEPT !.fileSize = JsNum(x)]) : x \in StatusSizes}

StatusOpenAnswers ==
    IF Len(drive) < MaxUploads THEN {OpenAnswer(200, TRUE)} ELSE {OpenAnswer(503, FALSE)}

StatusWriteEndings ==
    StatusEndings \cup {[kind |-> "answer", finalStatus |-> 200],
                        [kind |-> "unavailable", finalStatus |-> 0]}

StatusChunkEvents == {ChunkEvent(sid, c) : sid \in DOMAIN sessionMapping, c \in 0..2}

StatusSingleEvents == {SingleEvent(sid) : sid \in DOMAIN sessionMapping}

NextStatus ==
    \/ \E event \in StatusInitiatorEvents, answer \in StatusOpenAnswers :
         CreateSession(event, TRUE, answer)
    \/ \E event \in StatusChunkEvents : RelayChunkStart(event)
    \/ \E t \in BagToSet(tasks) : RelayChunkToken(t, TRUE)
    \/ \E t \in BagToSet(tasks), ending \in StatusWriteEndings : RelayChunkWrite(t, ending)
    \/ \E event \in StatusSingleEvents : RelaySingleStart(event)
    \/ \E t \in BagToSet(tasks) : RelaySingleToken(t, TRUE)
    \/ \E t \in BagToSet(tasks), ending \in StatusWriteEndings : RelaySingleWrite(t, ending)

SpecStatus == Init /\ [][NextStatus]_vars

(***************************************************************************)
(* The range computation of the chunk relay over file and chunk sizes of   *)
(* every small shape: the header-driven relay, one request at a time.      *)
(***************************************************************************)
MaxFileSize == 5
MaxChunkSize == 3

\* <<fileSize, chunkSize>>: the small ones and the sizes of a three-chunk
\* file with the program's chunk size.
RangeParams ==
    {<<fs, cs>> : fs \in 1..MaxFileSize, cs \in 1..MaxChunkSize}
    \cup {<<11000000, CHUNK_SIZE>>}

RangeEvent(fileSize, chunkSize, chunkIndex) ==
    [HeaderEvent(UnknownId, chunkIndex, GoogleUrl(1), fileSize, chunkIndex) EXCEPT
        !.chunkSize = chunkSize, !.totalChunks = Ceil(fileSize, chunkSize),
        !.uploadedBytes = chunkIndex * chunkSize]

\* Every chunk index of the file, and the one past the last.
RangeEvents ==
    UNION {{RangeEvent(p[1], p[2], i) : i \in 0..Ceil(p[1], p[2])} : p \in RangeParams}

NextRange ==
    \/ \E event \in RangeEvents : tasks = EmptyBag /\ HeaderChunkStart(event)
    \/ \E t \in BagToSet(tasks) : HeaderChunkToken(t, TRUE)
    \/ \E t \in BagToSet(tasks),
          ending \in {[kind |-> "answer", finalStatus |-> 200],
                      [kind |-> "dropped", finalStatus |-> 0]} :
         HeaderChunkWrite(t, ending)

SpecRange == Init /\ [][NextRange]_vars

(***************************************************************************)
(* The legacy initiator beside the current one: two sessions, backend      *)
(* answers with and without an upload_id, the clock.                       *)
(***************************************************************************)
LegacySizes == {1024, 2048, -1}

LegacyInitiatorEvents ==
    {PostEvent([DefaultBody EXCEPT !.fileSize = JsNum(x)]) : x \in LegacySizes}
    \cup {[PostEvent(DefaultBody) EXCEPT !.authorization = "Bearer wrong"]}

\* The session's URL, a URL without upload_id, a redirect, a server error.
LegacyOpenAnswers ==
    {OpenAnswer(200, TRUE), OpenAnswerPlainUrl(200), OpenAnswer(302, TRUE),
     OpenAnswer(503, FALSE)}

NextLegacy ==
    \/ \E event \in LegacyInitiatorEvents, tokenOk \in BOOLEAN,
          answer \in LegacyOpenAnswers :
         CreateSessionLegacy(event, tokenOk, answer)
    \/ \E event \in LegacyInitiatorEvents, tokenOk \in BOOLEAN,
          answer \in LegacyOpenAnswers :
         CreateSession(event, tokenOk, answer)
    \/ Tick

SpecLegacy == Init /\ [][NextLegacy]_vars

(***************************************************************************)
(* Relay calls one at a time against a backend that may never answer, with *)
(* the event loop running every callback whose I/O has ended.              *)
(***************************************************************************)
LiveSizes == {MAX_SINGLE_UPLOAD_SIZE, 11000000}

LiveInitiatorEvents ==
    {PostEvent([DefaultBody EXCEPT !.fileSize = JsNum(x)]) : x \in LiveSizes}

\* The backend answers in protocol, answers 503, or never answers.
LiveEndings ==
    {[kind |-> "answer", finalStatus |-> 200], [kind |-> "unavailable", finalStatus |-> 0],
     SilentEnding}

LiveChunkEvents == {ChunkEvent(sid, c) : sid \in DOMAIN uploadSessions, c \in 0..2}

LiveSingleEvents == {SingleEvent(sid) : sid \in DOMAIN uploadSessions}

LiveHeaderEvents ==
    {HeaderEvent(UnknownId, c, url, drive[url.n].size, c) : c \in 0..2, url \in clientUrls}

NextLive ==
    \/ \E event \in LiveInitiatorEvents, answer \in LifecycleOpenAnswers :
         CreateSession(event, TRUE, answer)
    \/ \E event \in LiveInitiatorEvents,
          answer \in HeaderOpenAnswers(Cardinality(clientUrls)) :
         DirectUrl(event, TRUE, answer)
    \/ \E event \in LiveChunkEvents : tasks = EmptyBag /\ RelayChunkStart(event)
    \/ \E t \in BagToSet(tasks), ok \in BOOLEAN : RelayChunkToken(t, ok)
    \/ \E t \in BagToSet(tasks), ending \in LiveEndings : RelayChunkWrite(t, ending)
    \/ \E event \in LiveSingleEvents : tasks = EmptyBag /\ RelaySingleStart(event)
    \/ \E t \in BagToSet(tasks), ok \in BOOLEAN : RelaySingleToken(t, ok)
    \/ \E t \in BagToSet(tasks), ending \in LiveEndings : RelaySingleWrite(t, ending)
    \/ \E event \in LiveHeaderEvents : tasks = EmptyBag /\ HeaderChunkStart(event)
    \/ \E t \in BagToSet(tasks), ok \in BOOLEAN : HeaderChunkToken(t, ok)
    \/ \E t \in BagToSet(tasks), ending \in LiveEndings : HeaderChunkWrite(t, ending)

\* A suspended handler resumes once its token request or its write has
\* ended: the event loop runs its continuation.
LiveFairness ==
    /\ WF_vars(\E t \in BagToSet(tasks), ok \in BOOLEAN : RelayChunkToken(t, ok))
    /\ WF_vars(\E t \in BagToSet(tasks), ending \in LiveEndings : RelayChunkWrite(t, ending))
    /\ WF_vars(\E t \in BagToSet(tasks), ok \in BOOLEAN : RelaySingleToken(t, ok))
    /\ WF_vars(\E t \in BagToSet(tasks), ending \in LiveEndings : RelaySingleWrite(t, ending))
    /\ WF_vars(\E t \in BagToSet(tasks), ok \in BOOLEAN : HeaderChunkToken(t, ok))
    /\ WF_vars(\E t \in BagToSet(tasks), ending \in LiveEndings : HeaderChunkWrite(t, ending))

SpecLive == Init /\ [][NextLive]_vars /\ LiveFairness
(***************************************************************************)
(* Properties.                                                             *)
(***************************************************************************)
InitiatorHandlers == {"createSession", "createSessionEarlier", "createSessionLegacy"}
ChunkRelays == {"relayChunk", "relayChunkHeaders"}

\* The last step was a session initiator storing a session and answering.
SessionCreated == last.h \in InitiatorHandlers /\ last.sid # NullHandle

\* The fields createUploadResponse may put in a body.
UploadResponseFields ==
    {"uploadUrl", "sessionId", "fileName", "fileSize", "mimeType", "requiresChunking",
     "expiresIn", "chunking", "instructions"}

\* C1: the response of a successful createSession holds the session id, the
\* mode, the chunk plan or the single-shot instructions and the echoed
\* request fields, its uploadUrl is null or the relay's own URL for that
\* session id, and it is never the capability URL stored for the session.
C1_ResponseHidesCapabilityUrl ==
    (SessionCreated /\ last.h = "createSession") =>
        LET body == last.resp.body
            stored == uploadSessions[last.sid]
        IN  /\ last.resp.statusCode = 200
            /\ DOMAIN body = UploadResponseFields
            /\ body.sessionId = last.sid
            /\ body.fileName = last.event.body.fileName
            /\ body.fileSize = last.event.body.fileSize
            /\ body.mimeType = last.event.body.mimeType
            /\ body.requiresChunking = stored.requiresChunking
            /\ body.uploadUrl \in {NullHandle, generateNetlifyUploadUrl(last.sid, "")}
            /\ IsCapabilityUrl(stored.uploadUrl)
            /\ body.uploadUrl # stored.uploadUrl
            /\ ~IsCapabilityUrl(body.uploadUrl)
            /\ ~IsCapabilityUrl(body.sessionId)

\* C1 witness: a single-shot session was just created; its response carries
\* the relay's URL while the store holds the capability URL.
C1_Witness ==
    /\ SessionCreated
    /\ last.h = "createSession"
    /\ last.resp.body.uploadUrl = generateNetlifyUploadUrl(last.sid, "")
    /\ uploadSessions[last.sid].uploadUrl = GoogleUrl(1)

\* The caller's request reached the body checks: right method, right secret,
\* parseable JSON.
EnvelopeOk(event) ==
    event.httpMethod = "POST" /\ authenticateRequest(event) /\ event.jsonOk

\* C2: across the upload endpoints no response carries a capability URL and
\* no request brings one: only the session id crosses the boundary.
C2_OnlySessionIdCrosses ==
    /\ clientUrls = {}
    /\ ~("uploadUrl" \in DOMAIN last.resp.body /\ IsCapabilityUrl(last.resp.body.uploadUrl))
    /\ ~(/\ last.h \in ChunkRelays \cup {"relaySingle"}
         /\ "uploadUrl" \in DOMAIN last.event
         /\ IsCapabilityUrl(last.event.uploadUrl))

\* The backend acknowledged the write of the last step.
Acknowledged(answer) ==
    answer.arrived /\ answer.statusCode >= 200 /\ answer.statusCode < 400

\* C3: once the backend acknowledges the last chunk of a chunked session
\* (the write that ends at the file's last byte), also after earlier calls
\* for the session failed or timed out, that relayChunk call answers
\* isComplete = true and the session is no longer in the store (so that a
\* later relayChunk for it finds no session).
C3_LastChunkCompletes ==
    (/\ last.h \in ChunkRelays
     /\ last.step = "write"
     /\ last.write.endByte = last.write.total - 1
     /\ Acknowledged(last.answer)) =>
        /\ last.resp.statusCode = 200
        /\ last.resp.body.isComplete
        /\ last.event.session \notin DOMAIN uploadSessions

\* C4: whenever relayChunk answers success with isComplete = true, the
\* session is gone from the store and the response carries the backend's
\* object id with the view and download URLs derived from it.
C4_CompleteCarriesFile ==
    (/\ last.h \in ChunkRelays
     /\ last.step = "write"
     /\ last.resp.statusCode = 200
     /\ last.resp.body.isComplete) =>
        /\ last.event.session \notin DOMAIN uploadSessions
        /\ "fileId" \in DOMAIN last.resp.body
        /\ last.resp.body.fileId.kind = "file"
        /\ last.resp.body.fileId = last.answer.id
        /\ last.resp.body.viewUrl = ViewUrl(last.resp.body.fileId)
        /\ last.resp.body.downloadUrl = DownloadUrl(last.resp.body.fileId)

\* C5: when the backend acknowledges the chunk relayed for index i of a
\* stored chunked session, relayChunk adds 1 to the stored uploadedChunks and
\* the chunk's length to uploadedBytes, computes isComplete from the new
\* counter, and reports the new counters.
C5_AckAdvancesCounters ==
    [][(/\ last'.h \in ChunkRelays
        /\ last'.step = "write"
        /\ Acknowledged(last'.answer)
        /\ ChunkSessionFound(last'.event.session)) =>
           LET sid == last'.event.session
               old == uploadSessions[sid]
               len == ChunkLength(last'.event.chunk, old.chunks.chunkSize, old.fileSize.n)
               body == last'.resp.body
           IN  /\ last'.resp.statusCode = 200
               /\ body.uploadedChunks = old.chunks.uploadedChunks + 1
               /\ body.uploadedBytes = old.chunks.uploadedBytes + len
               /\ body.totalChunks = old.chunks.totalChunks
               /\ body.isComplete = (old.chunks.uploadedChunks + 1 >= old.chunks.totalChunks)
               /\ sid \in DOMAIN uploadSessions' =>
                      /\ uploadSessions'[sid].chunks.uploadedChunks =
                            old.chunks.uploadedChunks + 1
                      /\ uploadSessions'[sid].chunks.uploadedBytes =
                            old.chunks.uploadedBytes + len]_vars

\* C6: relayChunk for a session id that is not in the store, or that names
\* a single-shot session, answers 400 or 404 at once: no token is asked for,
\* no write is issued, the store stays as it was.
C6_UnknownSessionRejected ==
    [][(/\ last'.h \in ChunkRelays
        /\ last'.step = "start"
        /\ last'.event.httpMethod = "PUT"
        /\ last'.event.session # NullHandle
        /\ ~ChunkSessionFound(last'.event.session)) =>
           /\ last'.resp.statusCode \in {400, 404}
           /\ tasks' = tasks
           /\ uploadSessions' = uploadSessions
           /\ drive' = drive]_vars

\* C7: the write a chunk relay issues for a stored chunked session and the
\* progress it reports are those the stored session and the chunk index
\* give, whatever the caller's headers say.
C7_StoredStateDecides ==
    [][(/\ last'.h \in ChunkRelays
        /\ last'.step = "write"
        /\ ChunkSessionFound(last'.event.session)) =>
           LET s == uploadSessions[last'.event.session]
               i == last'.event.chunk
               body == last'.resp.body
           IN  /\ last'.write.url = s.uploadUrl
               /\ last'.write.startByte = ChunkStart(i, s.chunks.chunkSize)
               /\ last'.write.endByte = ChunkEnd(i, s.chunks.chunkSize, s.fileSize.n)
               /\ last'.write.total = s.fileSize.n
               /\ last'.resp.statusCode = 200 =>
                      /\ body.totalChunks = s.chunks.totalChunks
                      /\ body.uploadedChunks = s.chunks.uploadedChunks + 1
                      /\ body.isComplete =
                            (s.chunks.uploadedChunks + 1 >= s.chunks.totalChunks)]_vars

\* C8: a session initiator stores a chunking record and answers with a
\* chunk plan exactly when the accepted fileSize is above 6 MiB.
C8_ChunkedIffAboveThreshold ==
    (SessionCreated /\ last.h \in {"createSession", "createSessionEarlier"}) =>
        LET above == last.event.body.fileSize.n > 6 * 1024 * 1024
        IN  /\ (uploadSessions[last.sid].chunks # NullChunks) = above
            /\ (last.resp.body.chunking # Absent) = above

\* The first field, in the order fileName, fileSize, mimeType, that is
\* missing, empty, of the wrong type or (fileSize) not positive or above the
\* maximum; "" when there is none.
OffendingField(body) ==
    IF body.fileName.t # "string" \/ body.fileName.s = "" THEN "fileName"
    ELSE IF body.fileSize.t # "number" \/ body.fileSize.n <= 0
            \/ body.fileSize.n > 30 * 1024 * 1024 THEN "fileSize"
    ELSE IF body.mimeType.t # "string" \/ body.mimeType.s = "" THEN "mimeType"
    ELSE ""

\* C9: a session initiator answers a request with an invalid body with 400
\* and a ValidationError naming the first offending field.
C9_InvalidBodyRejected ==
    (/\ last.h \in {"createSession", "createSessionLegacy"}
     /\ EnvelopeOk(last.event)
     /\ OffendingField(last.event.body) # "") =>
        /\ last.resp.statusCode = 400
        /\ last.err.name = "ValidationError"
        /\ last.err.field = OffendingField(last.event.body)

\* The backend answered the session-open request of the current initiator
\* without opening a session: a status other than 200, or no Location.
OpenRefused ==
    /\ last.h = "createSession"
    /\ last.step = "open"
    /\ last.answer.kind = "response"
    /\ (last.answer.statusCode # 200 \/ ~last.answer.location)

SweptInRun(l) ==
    /\ l.h \in {"createSession", "createSessionEarlier"}
    /\ l.event.httpMethod = "POST"
    /\ authenticateRequest(l.event)

\* The credential provider failed in the last step of a session initiator.
CredentialFailed(l) ==
    /\ l.h \in {"createSession", "createSessionEarlier"}
    /\ l.step = "token"
    /\ l.err.message = "Failed to refresh OAuth2 access token"

\* C11: when the credential provider fails during createSession the request
\* is answered 401, the request is over (nothing of it is left to ask the
\* backend), the backend has opened no session and no session is stored.
C11_CredentialFailureIs401 ==
    [][CredentialFailed(last') =>
          /\ last'.resp.statusCode = 401
          /\ last'.resp.body.error = "Authentication failed"
          /\ tasks' \sqsubseteq tasks
          /\ last'.h = "createSession" =>
                 BagCardinality(tasks') = BagCardinality(tasks) - 1
          /\ drive' = drive
          /\ sessionMapping' = sessionMapping
          /\ DOMAIN uploadSessions' \subseteq DOMAIN uploadSessions]_vars

\* C11 witness: the current initiator has just answered 401 for a failed
\* credential refresh, with no session opened or stored.
C11_Witness ==
    /\ CredentialFailed(last)
    /\ last.h = "createSession"
    /\ last.resp.statusCode = 401
    /\ drive = << >>
    /\ uploadSessions = << >>

\* The request's Authorization header is not 'Bearer <shared-secret>'.
WrongSecret(l) ==
    /\ l.h \in {"createSession", "createSessionEarlier"}
    /\ l.event.httpMethod = "POST"
    /\ l.event.authorization # "Bearer secret"

\* C12: a session-initiation request with a wrong Authorization header is
\* answered 401 and changes nothing: the store (no sweep), the suspended
\* requests (no token asked for) and the backend stay as they were.
C12_WrongSecretHasNoEffect ==
    [][WrongSecret(last') =>
          /\ last'.resp.statusCode = 401
          /\ uploadSessions' = uploadSessions
          /\ sessionMapping' = sessionMapping
          /\ detached' = detached
          /\ tasks' = tasks
          /\ drive' = drive]_vars

\* C12 witness: a request with the bare secret was answered 401 while an
\* expired session, which a sweep would have removed, is still stored.
C12_Witness ==
    /\ WrongSecret(last)
    /\ last.event.authorization = "secret"
    /\ last.resp.statusCode = 401
    /\ \E sid \in DOMAIN uploadSessions :
          now * 3600000 - uploadSessions[sid].createdAt > 3600000

\* C13: a chunk write that the backend answers with a status other than 308,
\* 200 or 201 (another 2xx or a 3xx included) makes relayChunk fail and
\* leaves the progress counters of the stored sessions as they were.
C13_OnlyProtocolStatusesAcknowledge ==
    [][(/\ last'.h \in ChunkRelays
        /\ last'.step = "write"
        /\ last'.answer.arrived
        /\ last'.answer.statusCode \notin {200, 201, 308}) =>
           /\ last'.resp.statusCode # 200
           /\ last'.err.name # "none"
           /\ \A sid \in DOMAIN uploadSessions \cap DOMAIN uploadSessions' :
                 uploadSessions'[sid].chunks = uploadSessions[sid].chunks
           /\ DOMAIN uploadSessions \subseteq DOMAIN uploadSessions']_vars

\* C14: a relayChunk call whose write timed out answers 500 or 504, and
\* relayChunk answers 400 only when it found no session (before any write).
C14_TimeoutDistinctFromSessionError ==
    /\ (/\ last.h = "relayChunk"
        /\ last.step = "write"
        /\ last.err.message = "Chunk upload timeout") => last.resp.statusCode \in {500, 504}
    /\ (last.h = "relayChunk" /\ last.resp.statusCode = 400) => last.step = "start"

\* C15: relaySingleShot for a session id that is not in the store, or that
\* names a chunked session, answers 400 or 404 at once: no token is asked
\* for, no write is issued, the store stays as it was.
C15_SingleShotRejectsWrongMode ==
    [][(/\ last'.h = "relaySingle"
        /\ last'.step = "start"
        /\ last'.event.httpMethod = "PUT"
        /\ last'.event.session # NullHandle
        /\ \/ last'.event.session \notin DOMAIN uploadSessions
           \/ uploadSessions[last'.event.session].chunks # NullChunks) =>
           /\ last'.resp.statusCode \in {400, 404}
           /\ tasks' = tasks
           /\ uploadSessions' = uploadSessions
           /\ drive' = drive]_vars

\* C16: when the backend answers the single-shot write with a 2xx status the
\* response carries the object's id and the view and download URLs derived
\* from it and the session is gone from the store; for every other answer
\* the call fails and the store stays as it was.
C16_SingleShotSuccessDeletes ==
    [][(last'.h = "relaySingle" /\ last'.step = "write") =>
          IF /\ last'.answer.arrived
             /\ last'.answer.statusCode >= 200
             /\ last'.answer.statusCode < 300
          THEN /\ last'.resp.statusCode = 200
               /\ last'.resp.body.fileId.kind = "file"
               /\ last'.resp.body.viewUrl = ViewUrl(last'.resp.body.fileId)
               /\ last'.resp.body.downloadUrl = DownloadUrl(last'.resp.body.fileId)
               /\ last'.event.session \notin DOMAIN uploadSessions'
          ELSE /\ last'.resp.statusCode # 200
               /\ last'.err.name # "none"
               /\ uploadSessions' = uploadSessions]_vars

SweptInStep(l) ==
    /\ SweptInRun(l)
    /\ l.h = "createSession" => l.step = "start"

\* C18: right after a sweep, with the store and the clock as the sweep left
\* them, a second sweep with the same maxAge removes nothing.
C18_SweepIdempotent ==
    SweptInStep(last) => cleanupExpiredSessions(DefaultMaxAge) = DOMAIN uploadSessions

\* C18 witness: a sweep has just removed a session and kept another; a
\* second sweep is the next thing that can happen.
C18_Witness ==
    /\ SweptInStep(last)
    /\ uploadSessions # << >>
    /\ DOMAIN sessionMapping \ DOMAIN uploadSessions # {}

\* The suspended chunk requests whose index is one of the file's chunks.
ChunkTasks ==
    {t \in BagToSet(tasks) :
        /\ t.h \in ChunkRelays
        /\ "fileSize" \in DOMAIN t.event
        /\ t.event.fileSize > 0
        /\ t.event.chunkSize > 0
        /\ t.event.chunk \in 0..(((t.event.fileSize + t.event.chunkSize - 1)
                                    \div t.event.chunkSize) - 1)}

\* C19: the range relayed for chunk i is start = i*chunkSize,
\* end = min(start+chunkSize-1, fileSize-1), length = end-start+1; the ranges
\* tile the file: chunk 0 starts at 0, chunk i+1 starts right after the end
\* of chunk i, the last chunk ends at fileSize-1, and no range is empty.
C19_RangesTileFile ==
    \A t \in ChunkTasks :
       LET fs == t.event.fileSize
           cs == t.event.chunkSize
           i == t.event.chunk
           total == (fs + cs - 1) \div cs
       IN  /\ t.startByte = i * cs
           /\ t.endByte = IF i * cs + cs - 1 < fs - 1 THEN i * cs + cs - 1 ELSE fs - 1
           /\ t.contentLength = t.endByte - t.startByte + 1
           /\ t.startByte <= t.endByte
           /\ i = 0 => t.startByte = 0
           /\ i + 1 < total => ChunkStart(i + 1, cs) = t.endByte + 1
           /\ i = total - 1 => t.endByte = fs - 1
           /\ (fs = 11000000 /\ cs = 5242880) =>
                 <<t.startByte, t.endByte>> \in
                    {<<0, 5242879>>, <<5242880, 10485759>>, <<10485760, 10999999>>}

\* C19 witness: the last chunk of the 11,000,000-byte file is in flight with
\* the range [10485760, 10999999].
C19_Witness ==
    \E t \in ChunkTasks :
       /\ t.event.fileSize = 11000000
       /\ t.event.chunk = 2
       /\ t.startByte = 10485760
       /\ t.endByte = 10999999

\* The sum of the contentLength of the chunks below index n.
RECURSIVE SumOfLengths(_, _, _)
SumOfLengths(n, chunkSize, fileSize) ==
    IF n = 0 THEN 0
    ELSE SumOfLengths(n - 1, chunkSize, fileSize) + ChunkLength(n - 1, chunkSize, fileSize)

\* C20: with totalChunks = ceil(fileSize / chunkSize), the contentLength of
\* the chunk in flight and those of the file's other chunks add up to
\* fileSize.
C20_LengthsSumToFileSize ==
    \A t \in ChunkTasks :
       LET fs == t.event.fileSize
           cs == t.event.chunkSize
           i == t.event.chunk
           total == Ceil(fs, cs)
       IN  /\ SumOfLengths(total, cs, fs) = fs
           /\ SumOfLengths(i, cs, fs) + t.contentLength
                 + (SumOfLengths(total, cs, fs) - SumOfLengths(i + 1, cs, fs)) = fs

\* C20 witness: the third chunk of a 5-byte file in chunks of 2 is in flight
\* with the one byte that is left.
C20_Witness ==
    \E t \in ChunkTasks :
       /\ t.event.fileSize = 5
       /\ t.event.chunkSize = 2
       /\ t.event.chunk = 2
       /\ t.contentLength = 1

\* C21: the sessionId a session initiator returns and stores under is not
\* the session's capability URL and is not taken from it: it is not the
\* URL's upload_id.
C21_SessionIdIndependentOfUrl ==
    SessionCreated =>
       LET url == uploadSessions[last.sid].uploadUrl
       IN  /\ last.sid # url
           /\ ~IsCapabilityUrl(last.sid)
           /\ last.sid # UploadIdOf(url)

\* The last step answered a pre-flight request.
Preflight(l) == "event" \in DOMAIN l /\ l.event.httpMethod = "OPTIONS"

\* A pre-flight request leaves the store, the mapping, the backend, the
\* requests in flight and the clock as they were.
PreflightHasNoEffect ==
    UNCHANGED <<uploadSessions, sessionMapping, detached, drive, tasks, now, clientUrls>>

ChunkedSessions == {sid \in DOMAIN uploadSessions : uploadSessions[sid].chunks # NullChunks}

\* C23: after any sequence of createSession, relayChunk (any index, repeated
\* or out of order), relaySingleShot and sweeps, every chunked session of the
\* store has 0 <= uploadedChunks <= totalChunks and
\* 0 <= uploadedBytes <= fileSize.
C23_CountersWithinBounds ==
    \A sid \in ChunkedSessions :
       LET s == uploadSessions[sid]
       IN  /\ 0 <= s.chunks.uploadedChunks
           /\ s.chunks.uploadedChunks <= s.chunks.totalChunks
           /\ 0 <= s.chunks.uploadedBytes
           /\ s.chunks.uploadedBytes <= s.fileSize.n

\* C23 witness: a session with two of its three chunks counted is stored, and
\* a relayChunk for an index beyond the file's chunks has just failed.
C23_Witness ==
    /\ last.h = "relayChunk"
    /\ last.step = "write"
    /\ last.event.chunk = 3
    /\ last.resp.statusCode = 400
    /\ last.event.session \in ChunkedSessions
    /\ uploadSessions[last.event.session].chunks.uploadedChunks = 2
    /\ uploadSessions[last.event.session].chunks.uploadedBytes = 10485760

\* C24: a chunked session of the store with uploadedChunks = totalChunks has
\* uploadedBytes = fileSize, and a relayChunk response that reports
\* uploadedChunks = totalChunks reports uploadedBytes = totalBytes.
C24_AllChunksMeansAllBytes ==
    /\ \A sid \in ChunkedSessions :
          LET s == uploadSessions[sid]
          IN  s.chunks.uploadedChunks = s.chunks.totalChunks =>
                 s.chunks.uploadedBytes = s.fileSize.n
    /\ (/\ last.h \in ChunkRelays
        /\ last.resp.statusCode = 200
        /\ "uploadedChunks" \in DOMAIN last.resp.body
        /\ last.resp.body.uploadedChunks = last.resp.body.totalChunks)
          => last.resp.body.uploadedBytes = last.resp.body.totalBytes

\* C25: a chunked session is stored with chunkSize = 5 MiB, totalChunks =
\* ceil(fileSize / chunkSize) and both counters 0; chunkSize and that
\* relation hold as long as it is stored; the chunk plan of the createSession
\* response is the stored one.
C25_ChunkPlanFixed ==
    /\ \A sid \in ChunkedSessions :
          LET s == uploadSessions[sid]
              n == s.chunks.totalChunks
          IN  /\ s.chunks.chunkSize = 5 * 1024 * 1024
              /\ (n - 1) * s.chunks.chunkSize < s.fileSize.n
              /\ s.fileSize.n <= n * s.chunks.chunkSize
    /\ (SessionCreated /\ last.sid \in ChunkedSessions) =>
          LET s == uploadSessions[last.sid]
          IN  /\ s.chunks.uploadedChunks = 0
              /\ s.chunks.uploadedBytes = 0
              /\ last.resp.body.chunking.chunkSize = s.chunks.chunkSize
              /\ last.resp.body.chunking.totalChunks = s.chunks.totalChunks

\* C25 witness: a session for an 11,000,000-byte file was just created with
\* a plan of three chunks, stored and returned.
C25_Witness ==
    /\ SessionCreated
    /\ last.sid \in ChunkedSessions
    /\ uploadSessions[last.sid].fileSize.n = 11000000
    /\ uploadSessions[last.sid].chunks.totalChunks = 3
    /\ last.resp.body.chunking.totalChunks = 3

\* The step l is a session initiator storing a session.
SessionCreatedBy(l) == l.h \in InitiatorHandlers /\ l.sid # NullHandle

\* C26: a session initiator never stores a session under a sessionId that is
\* already a key of the store (two calls at the same millisecond included),
\* and leaves every stored session's capability URL as it was.
C26_NeverStoresUnderLiveKey ==
    [][SessionCreatedBy(last') =>
          /\ last'.sid \notin DOMAIN uploadSessions
          /\ \A sid \in DOMAIN uploadSessions \cap DOMAIN uploadSessions' :
                uploadSessions'[sid].uploadUrl = uploadSessions[sid].uploadUrl]_vars

\* The step l is a chunk write of the server-tracked relay for session sid.
ChunkWriteOf(l, sid) ==
    l.h = "relayChunk" /\ l.step = "write" /\ l.event.session = sid

\* C27: a relayChunk whose write ends in a backend error, a network error or
\* a timeout leaves the store as it was; a stored session changes only in
\* its progress counters and only in a relayChunk step for it whose write the
\* backend acknowledged.
C27_FailedChunkChangesNothing ==
    [][/\ (/\ last'.h = "relayChunk"
           /\ last'.step = "write"
           /\ ~Acknowledged(last'.answer)) => uploadSessions' = uploadSessions
       /\ \A sid \in DOMAIN uploadSessions \cap DOMAIN uploadSessions' :
             uploadSessions'[sid] # uploadSessions[sid] =>
                /\ ChunkWriteOf(last', sid)
                /\ Acknowledged(last'.answer)
                /\ [uploadSessions'[sid] EXCEPT !.chunks = uploadSessions[sid].chunks]
                      = uploadSessions[sid]
                /\ uploadSessions'[sid].chunks.chunkSize
                      = uploadSessions[sid].chunks.chunkSize
                /\ uploadSessions'[sid].chunks.totalChunks
                      = uploadSessions[sid].chunks.totalChunks]_vars

\* C27 witness: a chunk write timed out for a session that is still stored
\* with the one chunk counted before.
C27_Witness ==
    /\ last.h = "relayChunk"
    /\ last.step = "write"
    /\ last.err.message = "Chunk upload timeout"
    /\ last.resp.statusCode = 400
    /\ last.event.session \in ChunkedSessions
    /\ uploadSessions[last.event.session].chunks.uploadedChunks = 1
    /\ uploadSessions[last.event.session].chunks.uploadedBytes = 5242880

\* C28: when relayChunk answers success with isComplete = false, the session
\* is in the store and holds the counters of the response, whatever
\* createSession requests (and their sweeps) ran while the write was in
\* flight.
C28_IncompleteSessionStillStored ==
    (/\ last.h = "relayChunk"
     /\ last.step = "write"
     /\ last.resp.statusCode = 200
     /\ ~last.resp.body.isComplete)
       => /\ last.event.session \in ChunkedSessions
          /\ uploadSessions[last.event.session].chunks.uploadedChunks
                = last.resp.body.uploadedChunks
          /\ uploadSessions[last.event.session].chunks.uploadedBytes
                = last.resp.body.uploadedBytes

\* C29: with relayChunk calls for one session in flight together, every
\* acknowledged write adds exactly 1 to the session's uploadedChunks and its
\* own length to uploadedBytes, and reports these; no other step changes the
\* counters; a call reports isComplete = true only when no earlier one has,
\* and then the session leaves the store.
C29_AcknowledgementsCountedOnce ==
    [][\A sid \in DOMAIN Heap :
          Heap[sid].chunks # NullChunks =>
             LET old == Heap[sid].chunks
                 acked == ChunkWriteOf(last', sid) /\ Acknowledged(last'.answer)
                 new == [old EXCEPT !.uploadedChunks = @ + 1,
                                    !.uploadedBytes = @ + last'.write.contentLength]
             IN  IF acked
                 THEN /\ last'.resp.statusCode = 200
                      /\ last'.resp.body.uploadedChunks = new.uploadedChunks
                      /\ last'.resp.body.uploadedBytes = new.uploadedBytes
                      /\ sid \in DOMAIN Heap' => Heap'[sid].chunks = new
                      /\ IF last'.resp.body.isComplete
                         THEN /\ old.uploadedChunks < old.totalChunks
                              /\ sid \notin DOMAIN uploadSessions'
                         ELSE sid \in DOMAIN uploadSessions =>
                                 sid \in DOMAIN uploadSessions'
                 ELSE sid \in DOMAIN Heap' => Heap'[sid].chunks = old]_vars

\* C29 witness: a write for a session was acknowledged and counted while
\* another relayChunk for the same session is still waiting for its write.
C29_Witness ==
    /\ last.h = "relayChunk"
    /\ last.step = "write"
    /\ Acknowledged(last.answer)
    /\ last.resp.body.uploadedChunks = 2
    /\ \E t \in BagToSet(tasks) :
          /\ t.h = "relayChunk"
          /\ t.pc = "write"
          /\ t.event.session = last.event.session

\* C30: a session enters the store only in a session initiator's step whose
\* request passed authentication and validation and whose open request the
\* backend answered with success and a capability URL; an initiator that
\* answers a failure adds no session and no sessionId-to-URL mapping.
C30_OnlySuccessfulCreateStores ==
    [][/\ \A sid \in DOMAIN uploadSessions' \ DOMAIN uploadSessions :
             /\ SessionCreatedBy(last')
             /\ last'.sid = sid
             /\ EnvelopeOk(last'.event)
             /\ OffendingField(last'.event.body) = ""
             /\ last'.answer.kind = "response"
             /\ last'.answer.statusCode = 200
             /\ last'.answer.location
             /\ last'.resp.statusCode = 200
       /\ (last'.h \in InitiatorHandlers /\ last'.resp.statusCode # 200) =>
             /\ DOMAIN uploadSessions' \subseteq DOMAIN uploadSessions
             /\ sessionMapping' = sessionMapping]_vars

\* A relay call has issued its write and has not returned.
WriteInFlight ==
    \E t \in BagToSet(tasks) :
       /\ t.h \in ChunkRelays \cup {"relaySingle"}
       /\ t.pc \in {"write", "waiting"}

\* C34: every relayChunk and relaySingleShot call that has started its
\* backend write eventually returns to its caller, also when the backend
\* never answers.
C34_RelayCallsReturn == WriteInFlight ~> (tasks = EmptyBag)

\* The stored sessions whose age exceeds maxAge.
Expired ==
    {sid \in DOMAIN uploadSessions :
        DateNow - uploadSessions[sid].createdAt > DefaultMaxAge}

\* The session a relay step has completed and deleted, if any.
Completed(l) ==
    IF /\ "event" \in DOMAIN l
       /\ l.h \in ChunkRelays \cup {"relaySingle"}
       /\ l.step = "write"
       /\ l.resp.statusCode = 200
    THEN {l.event.session}
    ELSE {}

C32_TokenPerChunk ==
    [][("event" \in DOMAIN last' /\ last'.h = "relayChunk") =>
          LET l == last'
              at(pc) == {t \in BagToSet(tasks) :
                            t.h = "relayChunk" /\ t.pc = pc /\ t.event = l.event}
          IN  /\ (l.step = "start" /\ tasks' # tasks) =>
                    /\ l.event.session \in ChunkedSessions
                    /\ \E t \in BagToSet(tasks') :
                          /\ t.pc = "token"
                          /\ t.event = l.event
                          /\ tasks' = tasks (+) SetToBag({t})
              /\ l.step = "token" =>
                    /\ drive' = drive
                    /\ uploadSessions' = uploadSessions
                    /\ l.write = NoWrite
                    /\ \E t \in at("token") :
                          IF l.err = NoError
                          THEN tasks' = (tasks (-) SetToBag({t}))
                                           (+) SetToBag({[t EXCEPT !.pc = "write"]})
                          ELSE /\ tasks' = tasks (-) SetToBag({t})
                               /\ l.resp.statusCode = 401
                               /\ l.resp.body.error
                                     = "Authentication failed - token refresh error"
              /\ l.step = "write" =>
                    \E t \in at("write") : tasks' = tasks (-) SetToBag({t})]_vars

\* C32 witness: the token failed for a chunk of a session that has one chunk
\* counted; the call answered 401 and the backend holds that one chunk.
C32_Witness ==
    /\ last.h = "relayChunk"
    /\ last.step = "token"
    /\ last.resp.statusCode = 401
    /\ last.event.session \in ChunkedSessions
    /\ uploadSessions[last.event.session].chunks.uploadedChunks = 1
    /\ drive[1].received = 5242880

\* The relay handlers that read the session store.
StoreRelays == {"relayChunk", "relaySingle"}

\* C33: a relay request issues a write only in its write step, which ends
\* the request whether the write was acknowledged, failed or timed out (it is
\* not sent again); a request whose lookup and token succeeded has exactly
\* that one write ahead of it.
C33_OneWritePerRequest ==
    [][("event" \in DOMAIN last' /\ last'.h \in StoreRelays) =>
          LET l == last'
          IN  /\ l.step # "write" => (l.write = NoWrite /\ drive' = drive)
              /\ (l.step = "token" /\ l.err = NoError) =>
                    \E t \in BagToSet(tasks') :
                       t.h = l.h /\ t.pc = "write" /\ t.event = l.event
              /\ l.step = "write" =>
                    /\ l.write # NoWrite
                    /\ l.resp # NoResponse
                    /\ \E t \in BagToSet(tasks) :
                          /\ t.h = l.h
                          /\ t.pc = "write"
                          /\ t.event = l.event
                          /\ tasks' = tasks (-) SetToBag({t})]_vars

\* C33 witness: the write of a single-shot relay failed, the request has
\* returned 500, nothing of it is in flight and the session is still stored.
C33_Witness ==
    /\ last.h = "relaySingle"
    /\ last.step = "write"
    /\ last.resp.statusCode = 500
    /\ tasks = EmptyBag
    /\ last.event.session \in DOMAIN uploadSessions

\* C35: relayChunk sends a write only for a chunk index of the file, with a
\* range 0 <= startByte <= endByte <= fileSize - 1 and the declared length
\* endByte - startByte + 1 >= 1.
C35_WritesWithinBounds ==
    (last.h = "relayChunk" /\ last.step = "write") =>
       /\ 0 <= last.event.chunk
       /\ 0 <= last.write.startByte
       /\ last.write.startByte <= last.write.endByte
       /\ last.write.endByte <= last.write.total - 1
       /\ last.write.contentLength = last.write.endByte - last.write.startByte + 1
       /\ last.write.contentLength >= 1

\* C36: every sessionId-to-capability-URL entry the process keeps (the
\* session store, the session mapping) is for a session that is in the
\* store.
C36_NoUrlOfDepartedSession ==
    DOMAIN sessionMapping \subseteq DOMAIN uploadSessions

\* C37: a relay request for a stored session older than maxAge gets no
\* further than the lookup: it is answered as not found and starts no token
\* request and no write.
C37_ExpiredSessionNotRelayed ==
    [][(/\ "event" \in DOMAIN last'
        /\ last'.h \in StoreRelays
        /\ last'.step = "start"
        /\ last'.event.session \in Expired) =>
          /\ tasks' = tasks
          /\ last'.resp.statusCode \in {400, 404}]_vars

\* C38: with createSession requests interleaved at their waits, every stored
\* session holds the capability URL its sessionId is mapped to, which is the
\* URL of a backend session opened for a file of the session's size; two
\* stored sessions have different URLs; every backend session has its own
\* sessionId; a session just stored has the fields of its own request.
C38_ConcurrentCreatesKeepApart ==
    /\ \A sid \in DOMAIN uploadSessions :
          LET s == uploadSessions[sid]
          IN  /\ sid \in DOMAIN sessionMapping
              /\ s.uploadUrl = sessionMapping[sid]
              /\ IsCapabilityUrl(s.uploadUrl)
              /\ s.uploadUrl.n \in 1..Len(drive)
              /\ drive[s.uploadUrl.n].size = s.fileSize.n
    /\ \A a, b \in DOMAIN uploadSessions :
          a # b => uploadSessions[a].uploadUrl # uploadSessions[b].uploadUrl
    /\ \A k \in 1..Len(drive) :
          \E sid \in DOMAIN sessionMapping : sessionMapping[sid] = GoogleUrl(k)
    /\ SessionCreated =>
          /\ uploadSessions[last.sid].fileName = last.event.body.fileName
          /\ uploadSessions[last.sid].fileSize = last.event.body.fileSize
          /\ uploadSessions[last.sid].mimeType = last.event.body.mimeType

\* C38 witness: a session was just stored for one request while another
\* createSession, for a file of another size, is waiting for the backend's
\* answer to its open request.
C38_Witness ==
    /\ SessionCreated
    /\ last.h = "createSession"
    /\ \E t \in BagToSet(tasks) :
          /\ t.h = "createSession"
          /\ t.pc = "open"
          /\ t.event.body.fileSize # last.event.body.fileSize
====
